---- MODULE Spec2Model ----
(***************************************************************************)
(* Typed property keys and accessors of coremidi (src/src/object.rs and    *)
(* src/src/properties/).  The Object accessors turn a typed key into a raw *)
(* CFStringRef and make one call into CoreMIDI; CoreMIDI itself, and the   *)
(* status-to-Result helpers of the crate root, are not in src/ and are     *)
(* modelled from what the specification and the tests say about them.      *)
(***************************************************************************)
EXTENDS Integers, Sequences, FiniteSets, TLC

VARIABLES
    clientCreated,  \* a Client has been created: the kMIDIProperty* constants are bound
    alive,          \* [Objects -> BOOLEAN]: the native object behind the handle exists
    props,          \* [Objects -> dictionary key text -> stored value]: CoreMIDI's store
    writes,         \* number of writes to the store so far (bounded by MaxWrites)
    lastSet,        \* the most recent successful set accessor call, as the caller made it
    last,           \* the most recent call into object.rs: operation, inputs, result, native calls
    key1, key2,     \* the two raw key references last handed to match_property_keys
    matched,        \* what match_property_keys did with them
    pn,             \* the most recent call on a PropertyName or of a try_from_constant_string_ref
    held,           \* the PropertyName a program holds, if any
    heap,           \* [HeapAddrs -> retain count]: the CFString allocations of the crate (0: freed)
    th              \* [Threads -> the accessor call the thread is in, and where in it]

vars == <<clientCreated, alive, props, writes, lastSet, last, key1, key2, matched, pn,
          held, heap, th>>

accessorVars == <<alive, props, writes, lastSet, last>>
keyVars == <<key1, key2, matched>>

(***************************************************************************)
(* Bounds of the model.                                                    *)
(***************************************************************************)
MaxWrites == 2

\* The two handles of the tests' setup(): a Client and its VirtualDestination.
Objects == {"client", "dest"}

\* Text values handed to set_string_property (NAME_ORIG, NAME_MODIFIED, empty).
Texts == {"", "A", "B"}

\* The range of i32, the value type of the integer accessors.
MaxI32 == 2147483647
MinI32 == -MaxI32 - 1

\* i32 values handed to set_int_property: the bounds, negatives, 0, 1 and others.
Int32Values == {MinI32, -1, 0, 1, 2, MaxI32}

\* A key text that is no CoreMIDI constant (the doc example of PropertyName).
CustomText == "com_coremidi_CustomProperty"

\* Addresses CFString::new may return for a fresh allocation.
HeapAddrs == {"heap1", "heap2"}

(***************************************************************************)
(* Values: every value is a record of one shape, so that values of         *)
(* different kinds can be compared.                                        *)
(***************************************************************************)
StrV(s)  == [t |-> "str",   s |-> s,  i |-> 0]
IntV(i)  == [t |-> "int",   s |-> "", i |-> i]
BoolV(b) == [t |-> "bool",  s |-> "", i |-> IF b THEN 1 ELSE 0]
UnitV    == [t |-> "unit",  s |-> "", i |-> 0]
Unset    == [t |-> "unset", s |-> "", i |-> 0]
\* A stored text property for which the native get reports success and hands back NULL.
NullV    == [t |-> "null",  s |-> "", i |-> 0]

\* Result<T, OSStatus>
Ok(v)  == [ok |-> TRUE,  v |-> v,     status |-> 0]
Err(s) == [ok |-> FALSE, v |-> UnitV, status |-> s]

(***************************************************************************)
(* OSStatus values of CoreMIDI.                                            *)
(***************************************************************************)
noErr == 0
kMIDIUnknownProperty == -10835
kMIDIWrongPropertyType == -10838
kMIDIObjectNotFound == -10842

\* lib.rs (not in src/): Ok(f()) on noErr, Err(status) otherwise.
result_from_status(status, value) ==
    IF status = noErr THEN Ok(value) ELSE Err(status)

unit_result_from_status(status) ==
    IF status = noErr THEN Ok(UnitV) ELSE Err(status)

(***************************************************************************)
(* CFStringRef: a reference to an allocation holding a text, or NULL.      *)
(***************************************************************************)
NULL == [addr |-> "NULL", text |-> ""]

is_null(ref) == ref.addr = "NULL"

\* CFString::new: a fresh allocation at address a holding a copy of s.
CFString_new(s, a) == [addr |-> a, text |-> s]

\* CFString::as_concrete_TypeRef: the reference the wrapper owns.
as_concrete_TypeRef(cfstring) == cfstring

\* CFString::to_string: the text of the allocation.
to_string(cfstring) == cfstring.text

\* An extern CFStringRef of CoreMIDI: NULL until a client has been created,
\* then one process-wide allocation per constant.
Extern(symbol, text) ==
    IF clientCreated THEN [addr |-> symbol, text |-> text] ELSE NULL

(***************************************************************************)
(* The extern constants of CoreMIDI the crate refers to.  The source gives *)
(* the text of two of them ("name", object.rs:284; "offline", mod.rs:368); *)
(* the others carry the text CoreMIDI documents for them.                  *)
(***************************************************************************)
kMIDIPropertyName == Extern("kMIDIPropertyName", "name")
kMIDIPropertyManufacturer == Extern("kMIDIPropertyManufacturer", "manufacturer")
kMIDIPropertyModel == Extern("kMIDIPropertyModel", "model")
kMIDIPropertyDriverOwner == Extern("kMIDIPropertyDriverOwner", "driver")
kMIDIPropertyDriverDeviceEditorApp == Extern("kMIDIPropertyDriverDeviceEditorApp", "driverDeviceEditorApp")
kMIDIPropertyDisplayName == Extern("kMIDIPropertyDisplayName", "displayName")
kMIDIPropertyDeviceID == Extern("kMIDIPropertyDeviceID", "deviceID")
kMIDIPropertyUniqueID == Extern("kMIDIPropertyUniqueID", "uniqueID")
kMIDIPropertyReceiveChannels == Extern("kMIDIPropertyReceiveChannels", "receiveChannels")
kMIDIPropertyTransmitChannels == Extern("kMIDIPropertyTransmitChannels", "transmitChannels")
kMIDIPropertyMaxSysExSpeed == Extern("kMIDIPropertyMaxSysExSpeed", "maxSysExSpeed")
kMIDIPropertyAdvanceScheduleTimeMuSec == Extern("kMIDIPropertyAdvanceScheduleTimeMuSec", "scheduleAheadMuSec")
kMIDIPropertySingleRealtimeEntity == Extern("kMIDIPropertySingleRealtimeEntity", "singleRealtimeEntity")
kMIDIPropertyConnectionUniqueID == Extern("kMIDIPropertyConnectionUniqueID", "connUniqueID")
kMIDIPropertyDriverVersion == Extern("kMIDIPropertyDriverVersion", "driverVersion")
kMIDIPropertyMaxReceiveChannels == Extern("kMIDIPropertyMaxReceiveChannels", "maxReceiveChannels")
kMIDIPropertyMaxTransmitChannels == Extern("kMIDIPropertyMaxTransmitChannels", "maxTransmitChannels")
kMIDIPropertyIsEmbeddedEntity == Extern("kMIDIPropertyIsEmbeddedEntity", "embedded")
kMIDIPropertyIsBroadcast == Extern("kMIDIPropertyIsBroadcast", "broadcast")
kMIDIPropertyOffline == Extern("kMIDIPropertyOffline", "offline")
kMIDIPropertyPrivate == Extern("kMIDIPropertyPrivate", "private")
kMIDIPropertySupportsGeneralMIDI == Extern("kMIDIPropertySupportsGeneralMIDI", "supportsGeneralMIDI")
kMIDIPropertySupportsMMC == Extern("kMIDIPropertySupportsMMC", "supportsMMC")
kMIDIPropertyCanRoute == Extern("kMIDIPropertyCanRoute", "canRoute")
kMIDIPropertyReceivesClock == Extern("kMIDIPropertyReceivesClock", "receivesClock")
kMIDIPropertyReceivesMTC == Extern("kMIDIPropertyReceivesMTC", "receivesMTC")
kMIDIPropertyReceivesNotes == Extern("kMIDIPropertyReceivesNotes", "receivesNotes")
kMIDIPropertyReceivesProgramChanges == Extern("kMIDIPropertyReceivesProgramChanges", "receivesProgramChanges")
kMIDIPropertyReceivesBankSelectMSB == Extern("kMIDIPropertyReceivesBankSelectMSB", "receivesBankSelectMSB")
kMIDIPropertyReceivesBankSelectLSB == Extern("kMIDIPropertyReceivesBankSelectLSB", "receivesBankSelectLSB")
kMIDIPropertyTransmitsBankSelectMSB == Extern("kMIDIPropertyTransmitsBankSelectMSB", "transmitsBankSelectMSB")
kMIDIPropertyTransmitsBankSelectLSB == Extern("kMIDIPropertyTransmitsBankSelectLSB", "transmitsBankSelectLSB")
kMIDIPropertyTransmitsClock == Extern("kMIDIPropertyTransmitsClock", "transmitsClock")
kMIDIPropertyTransmitsMTC == Extern("kMIDIPropertyTransmitsMTC", "transmitsMTC")
kMIDIPropertyTransmitsNotes == Extern("kMIDIPropertyTransmitsNotes", "transmitsNotes")
kMIDIPropertyTransmitsProgramChanges == Extern("kMIDIPropertyTransmitsProgramChanges", "transmitsProgramChanges")
kMIDIPropertyPanDisruptsStereo == Extern("kMIDIPropertyPanDisruptsStereo", "panDisruptsStereo")
kMIDIPropertyIsSampler == Extern("kMIDIPropertyIsSampler", "isSampler")
kMIDIPropertyIsDrumMachine == Extern("kMIDIPropertyIsDrumMachine", "isDrumMachine")
kMIDIPropertyIsMixer == Extern("kMIDIPropertyIsMixer", "isMixer")
kMIDIPropertyIsEffectUnit == Extern("kMIDIPropertyIsEffectUnit", "isEffectUnit")
kMIDIPropertySupportsShowControl == Extern("kMIDIPropertySupportsShowControl", "supportsShowControl")

\* enum StringProperty (src/src/properties/string.rs), in declaration order.
StringPropertyVariants == <<"Name", "Manufacturer", "Model", "DriverOwner",
    "DriverDeviceEditorApp", "DisplayName">>
StringProperty == {StringPropertyVariants[n] : n \in 1..Len(StringPropertyVariants)}

\* impl From<StringProperty> for CFStringRef
StringProperty_into_CFStringRef(prop) ==
    CASE prop = "Name" -> kMIDIPropertyName
      [] prop = "Manufacturer" -> kMIDIPropertyManufacturer
      [] prop = "Model" -> kMIDIPropertyModel
      [] prop = "DriverOwner" -> kMIDIPropertyDriverOwner
      [] prop = "DriverDeviceEditorApp" -> kMIDIPropertyDriverDeviceEditorApp
      [] prop = "DisplayName" -> kMIDIPropertyDisplayName

StringPropertyKeySet_name_twice ==
    <<[prop |-> "Name", key |-> kMIDIPropertyName],
      [prop |-> "Manufacturer", key |-> kMIDIPropertyManufacturer],
      [prop |-> "Model", key |-> kMIDIPropertyModel],
      [prop |-> "DriverOwner", key |-> kMIDIPropertyDriverOwner],
      [prop |-> "DriverDeviceEditorApp", key |-> kMIDIPropertyDriverDeviceEditorApp],
      [prop |-> "DisplayName", key |-> kMIDIPropertyName]>>

\* The arms of convert_property_key_set! in StringProperty::try_from_constant_string_ref, in order.
StringPropertyKeySet ==
    <<[prop |-> "Name", key |-> kMIDIPropertyName],
      [prop |-> "Manufacturer", key |-> kMIDIPropertyManufacturer],
      [prop |-> "Model", key |-> kMIDIPropertyModel],
      [prop |-> "DriverOwner", key |-> kMIDIPropertyDriverOwner],
      [prop |-> "DriverDeviceEditorApp", key |-> kMIDIPropertyDriverDeviceEditorApp],
      [prop |-> "DisplayName", key |-> kMIDIPropertyDisplayName]>>

\* enum IntegerProperty (src/src/properties/integer.rs), in declaration order.
IntegerPropertyVariants == <<"DeviceId", "UniqueId", "ReceiveChannels", "TransmitChannels",
    "MaxSysExSpeed", "AdvanceScheduleTimeMuSec", "SingleRealtimeEntity", "ConnectionUniqueId",
    "DriverVersion", "MaxRecieveChannels", "MaxTransmitChannels">>
IntegerProperty == {IntegerPropertyVariants[n] : n \in 1..Len(IntegerPropertyVariants)}

\* impl From<IntegerProperty> for CFStringRef
IntegerProperty_into_CFStringRef(prop) ==
    CASE prop = "DeviceId" -> kMIDIPropertyDeviceID
      [] prop = "UniqueId" -> kMIDIPropertyUniqueID
      [] prop = "ReceiveChannels" -> kMIDIPropertyReceiveChannels
      [] prop = "TransmitChannels" -> kMIDIPropertyTransmitChannels
      [] prop = "MaxSysExSpeed" -> kMIDIPropertyMaxSysExSpeed
      [] prop = "AdvanceScheduleTimeMuSec" -> kMIDIPropertyAdvanceScheduleTimeMuSec
      [] prop = "SingleRealtimeEntity" -> kMIDIPropertySingleRealtimeEntity
      [] prop = "ConnectionUniqueId" -> kMIDIPropertyConnectionUniqueID
      [] prop = "DriverVersion" -> kMIDIPropertyDriverVersion
      [] prop = "MaxRecieveChannels" -> kMIDIPropertyMaxReceiveChannels
      [] prop = "MaxTransmitChannels" -> kMIDIPropertyMaxTransmitChannels

\* The arms of IntegerProperty::try_from_constant_string_ref with the constants
\* of its last two arms exchanged.
IntegerPropertyKeySet_max_channels_exchanged ==
    <<[prop |-> "DeviceId", key |-> kMIDIPropertyDeviceID],
      [prop |-> "UniqueId", key |-> kMIDIPropertyUniqueID],
      [prop |-> "ReceiveChannels", key |-> kMIDIPropertyReceiveChannels],
      [prop |-> "TransmitChannels", key |-> kMIDIPropertyTransmitChannels],
      [prop |-> "MaxSysExSpeed", key |-> kMIDIPropertyMaxSysExSpeed],
      [prop |-> "AdvanceScheduleTimeMuSec", key |-> kMIDIPropertyAdvanceScheduleTimeMuSec],
      [prop |-> "SingleRealtimeEntity", key |-> kMIDIPropertySingleRealtimeEntity],
      [prop |-> "ConnectionUniqueId", key |-> kMIDIPropertyConnectionUniqueID],
      [prop |-> "DriverVersion", key |-> kMIDIPropertyDriverVersion],
      [prop |-> "MaxRecieveChannels", key |-> kMIDIPropertyMaxTransmitChannels],
      [prop |-> "MaxTransmitChannels", key |-> kMIDIPropertyMaxReceiveChannels]>>

\* The arms of convert_property_key_set! in IntegerProperty::try_from_constant_string_ref, in order.
IntegerPropertyKeySet ==
    <<[prop |-> "DeviceId", key |-> kMIDIPropertyDeviceID],
      [prop |-> "UniqueId", key |-> kMIDIPropertyUniqueID],
      [prop |-> "ReceiveChannels", key |-> kMIDIPropertyReceiveChannels],
      [prop |-> "TransmitChannels", key |-> kMIDIPropertyTransmitChannels],
      [prop |-> "MaxSysExSpeed", key |-> kMIDIPropertyMaxSysExSpeed],
      [prop |-> "AdvanceScheduleTimeMuSec", key |-> kMIDIPropertyAdvanceScheduleTimeMuSec],
      [prop |-> "SingleRealtimeEntity", key |-> kMIDIPropertySingleRealtimeEntity],
      [prop |-> "ConnectionUniqueId", key |-> kMIDIPropertyConnectionUniqueID],
      [prop |-> "DriverVersion", key |-> kMIDIPropertyDriverVersion],
      [prop |-> "MaxRecieveChannels", key |-> kMIDIPropertyMaxReceiveChannels],
      [prop |-> "MaxTransmitChannels", key |-> kMIDIPropertyMaxTransmitChannels]>>

\* enum BooleanProperty (src/src/properties/boolean.rs), in declaration order.
BooleanPropertyVariants == <<"IsEmbeddedEntity", "IsBroadcast", "Offline", "Private",
    "SupportsGeneralMIDI", "SupportsMMC", "CanRoute", "ReceivesClock",
    "ReceivesMTC", "ReceivesNotes", "ReceivesProgramChanges", "ReceivesBankSelectMSB",
    "ReceivesBankSelectLSB", "TransmitsBankSelectMSB", "TransmitsBankSelectLSB", "TransmitsClock",
    "TransmitsMTC", "TransmitsNotes", "TransmitsProgramChanges", "PanDisruptsStereo",
    "IsSampler", "IsDrumMachine", "IsMixer", "IsEffectUnit",
    "SupportsShowControl">>
BooleanProperty == {BooleanPropertyVariants[n] : n \in 1..Len(BooleanPropertyVariants)}

\* impl From<BooleanProperty> for CFStringRef
BooleanProperty_into_CFStringRef(prop) ==
    CASE prop = "IsEmbeddedEntity" -> kMIDIPropertyIsEmbeddedEntity
      [] prop = "IsBroadcast" -> kMIDIPropertyIsBroadcast
      [] prop = "Offline" -> kMIDIPropertyOffline
      [] prop = "Private" -> kMIDIPropertyPrivate
      [] prop = "SupportsGeneralMIDI" -> kMIDIPropertySupportsGeneralMIDI
      [] prop = "SupportsMMC" -> kMIDIPropertySupportsMMC
      [] prop = "CanRoute" -> kMIDIPropertyCanRoute
      [] prop = "ReceivesClock" -> kMIDIPropertyReceivesClock
      [] prop = "ReceivesMTC" -> kMIDIPropertyReceivesMTC
      [] prop = "ReceivesNotes" -> kMIDIPropertyReceivesNotes
      [] prop = "ReceivesProgramChanges" -> kMIDIPropertyReceivesProgramChanges
      [] prop = "ReceivesBankSelectMSB" -> kMIDIPropertyReceivesBankSelectMSB
      [] prop = "ReceivesBankSelectLSB" -> kMIDIPropertyReceivesBankSelectLSB
      [] prop = "TransmitsBankSelectMSB" -> kMIDIPropertyTransmitsBankSelectMSB
      [] prop = "TransmitsBankSelectLSB" -> kMIDIPropertyTransmitsBankSelectLSB
      [] prop = "TransmitsClock" -> kMIDIPropertyTransmitsClock
      [] prop = "TransmitsMTC" -> kMIDIPropertyTransmitsMTC
      [] prop = "TransmitsNotes" -> kMIDIPropertyTransmitsNotes
      [] prop = "TransmitsProgramChanges" -> kMIDIPropertyTransmitsProgramChanges
      [] prop = "PanDisruptsStereo" -> kMIDIPropertyPanDisruptsStereo
      [] prop = "IsSampler" -> kMIDIPropertyIsSampler
      [] prop = "IsDrumMachine" -> kMIDIPropertyIsDrumMachine
      [] prop = "IsMixer" -> kMIDIPropertyIsMixer
      [] prop = "IsEffectUnit" -> kMIDIPropertyIsEffectUnit
      [] prop = "SupportsShowControl" -> kMIDIPropertySupportsShowControl

BooleanPropertyKeySet_clock_mtc_swapped ==
    [n \in 1..Len(BooleanPropertyVariants) |->
        [prop |-> BooleanPropertyVariants[n],
         key  |-> CASE BooleanPropertyVariants[n] = "TransmitsClock" -> kMIDIPropertyTransmitsMTC
                    [] BooleanPropertyVariants[n] = "TransmitsMTC" -> kMIDIPropertyTransmitsClock
                    [] OTHER -> BooleanProperty_into_CFStringRef(BooleanPropertyVariants[n])]]

\* The arms of convert_property_key_set! in BooleanProperty::try_from_constant_string_ref, in order.
BooleanPropertyKeySet ==
    <<[prop |-> "IsEmbeddedEntity", key |-> kMIDIPropertyIsEmbeddedEntity],
      [prop |-> "IsBroadcast", key |-> kMIDIPropertyIsBroadcast],
      [prop |-> "Offline", key |-> kMIDIPropertyOffline],
      [prop |-> "Private", key |-> kMIDIPropertyPrivate],
      [prop |-> "SupportsGeneralMIDI", key |-> kMIDIPropertySupportsGeneralMIDI],
      [prop |-> "SupportsMMC", key |-> kMIDIPropertySupportsMMC],
      [prop |-> "CanRoute", key |-> kMIDIPropertyCanRoute],
      [prop |-> "ReceivesClock", key |-> kMIDIPropertyReceivesClock],
      [prop |-> "ReceivesMTC", key |-> kMIDIPropertyReceivesMTC],
      [prop |-> "ReceivesNotes", key |-> kMIDIPropertyReceivesNotes],
      [prop |-> "ReceivesProgramChanges", key |-> kMIDIPropertyReceivesProgramChanges],
      [prop |-> "ReceivesBankSelectMSB", key |-> kMIDIPropertyReceivesBankSelectMSB],
      [prop |-> "ReceivesBankSelectLSB", key |-> kMIDIPropertyReceivesBankSelectLSB],
      [prop |-> "TransmitsBankSelectMSB", key |-> kMIDIPropertyTransmitsBankSelectMSB],
      [prop |-> "TransmitsBankSelectLSB", key |-> kMIDIPropertyTransmitsBankSelectLSB],
      [prop |-> "TransmitsClock", key |-> kMIDIPropertyTransmitsClock],
      [prop |-> "TransmitsMTC", key |-> kMIDIPropertyTransmitsMTC],
      [prop |-> "TransmitsNotes", key |-> kMIDIPropertyTransmitsNotes],
      [prop |-> "TransmitsProgramChanges", key |-> kMIDIPropertyTransmitsProgramChanges],
      [prop |-> "PanDisruptsStereo", key |-> kMIDIPropertyPanDisruptsStereo],
      [prop |-> "IsSampler", key |-> kMIDIPropertyIsSampler],
      [prop |-> "IsDrumMachine", key |-> kMIDIPropertyIsDrumMachine],
      [prop |-> "IsMixer", key |-> kMIDIPropertyIsMixer],
      [prop |-> "IsEffectUnit", key |-> kMIDIPropertyIsEffectUnit],
      [prop |-> "SupportsShowControl", key |-> kMIDIPropertySupportsShowControl]>>

(***************************************************************************)
(* Identity Matcher (src/src/properties/mod.rs).                           *)
(***************************************************************************)
\* CFEqual of CoreFoundation on two non-null CFStrings: 1 when they are the
\* same allocation or hold the same text, 0 otherwise.
CFEqual(cf1, cf2) ==
    IF cf1.addr = cf2.addr \/ cf1.text = cf2.text THEN 1 ELSE 0

\* match_property_keys without its null check.
match_property_keys_no_null_check(k1, k2) ==
    [ret |-> (CFEqual(k1, k2) = 1), calls |-> <<[a |-> k1, b |-> k2]>>]

\* match_property_keys comparing the two pointers, not calling CFEqual.
match_property_keys_ptr_eq(k1, k2) ==
    IF is_null(k1) \/ is_null(k2)
    THEN [ret |-> FALSE, calls |-> <<>>]
    ELSE [ret |-> (k1.addr = k2.addr), calls |-> <<>>]

\* match_property_keys with && for || in its null check.
match_property_keys_and(k1, k2) ==
    IF is_null(k1) /\ is_null(k2)
    THEN [ret |-> FALSE, calls |-> <<>>]
    ELSE [ret |-> (CFEqual(k1, k2) = 1), calls |-> <<[a |-> k1, b |-> k2]>>]

\* ret: the bool returned; calls: the CFEqual calls made, in order.
match_property_keys(k1, k2) ==
    IF is_null(k1) \/ is_null(k2)
    THEN [ret |-> FALSE, calls |-> <<>>]
    ELSE [ret |-> (CFEqual(k1, k2) = 1), calls |-> <<[a |-> k1, b |-> k2]>>]

(***************************************************************************)
(* TypedPropertyKey<K> (src/src/properties/mod.rs).  kind stands for the   *)
(* type parameter K: "String", "Integer" or "Boolean".                     *)
(***************************************************************************)
Standard(kind, prop) == [tag |-> "Standard", kind |-> kind, prop |-> prop, cf |-> NULL]
Other(kind, cfstring) == [tag |-> "Other", kind |-> kind, prop |-> "", cf |-> cfstring]

\* custom with the name put under a prefix of the crate.
custom_prefixed(kind, name, a) == Other(kind, CFString_new("coremidi." \o name, a))

\* TypedPropertyKey::custom
custom(kind, name, a) == Other(kind, CFString_new(name, a))

\* Into::<CFStringRef>::into for a K: StandardProperty
Into_CFStringRef(kind, prop) ==
    CASE kind = "String"  -> StringProperty_into_CFStringRef(prop)
      [] kind = "Integer" -> IntegerProperty_into_CFStringRef(prop)
      [] kind = "Boolean" -> BooleanProperty_into_CFStringRef(prop)

\* TypedPropertyKey::as_string_ref
as_string_ref(key) ==
    IF key.tag = "Standard"
    THEN Into_CFStringRef(key.kind, key.prop)
    ELSE as_concrete_TypeRef(key.cf)

\* What a caller hands to an accessor as its key: a K, or a &str / String.
PropArg(prop) == [from |-> "prop", prop |-> prop, text |-> ""]
StrArg(text)  == [from |-> "str",  prop |-> "",   text |-> text]

\* TypedPropertyKey::from that makes Standard of a text spelling a constant of K.
TypedPropertyKey_from_upgrading(kind, arg, a) ==
    LET set == CASE kind = "String"  -> StringPropertyKeySet
                 [] kind = "Integer" -> IntegerPropertyKeySet
                 [] kind = "Boolean" -> BooleanPropertyKeySet
        hits == {i \in 1..Len(set) : ~is_null(set[i].key) /\ set[i].key.text = arg.text}
    IN  IF arg.from = "prop" THEN Standard(kind, arg.prop)
        ELSE IF hits # {} THEN Standard(kind, set[CHOOSE i \in hits : TRUE].prop)
        ELSE Other(kind, CFString_new(arg.text, a))

\* impl From<K> / From<String> / From<&str> for TypedPropertyKey<K>
TypedPropertyKey_from(kind, arg, a) ==
    IF arg.from = "prop" THEN Standard(kind, arg.prop) ELSE custom(kind, arg.text, a)

(***************************************************************************)
(* The four native primitives of CoreMIDI, on the store props.             *)
(***************************************************************************)
Cell(object, text) ==
    IF text \in DOMAIN props[object] THEN props[object][text] ELSE Unset

Stored(object, text, v) ==
    [props EXCEPT ![object] = (text :> v) @@ props[object]]

\* status, and the CFStringRef written to the out parameter on success.
MIDIObjectGetStringProperty(object, key) ==
    LET cell == Cell(object, key.text) IN
    CASE ~alive[object] -> [status |-> kMIDIObjectNotFound, out |-> NULL]
      [] alive[object] /\ (is_null(key) \/ cell.t = "unset") ->
            [status |-> kMIDIUnknownProperty, out |-> NULL]
      [] alive[object] /\ ~is_null(key) /\ cell.t = "str" ->
            [status |-> noErr, out |-> [addr |-> "native", text |-> cell.s]]
      [] alive[object] /\ ~is_null(key) /\ cell.t = "null" ->
            [status |-> noErr, out |-> NULL]
      [] alive[object] /\ ~is_null(key) /\ cell.t = "int" ->
            [status |-> kMIDIWrongPropertyType, out |-> NULL]

\* status, and the store after the call.
MIDIObjectSetStringProperty(object, key, string_ref) ==
    CASE ~alive[object] -> [status |-> kMIDIObjectNotFound, props |-> props]
      [] alive[object] /\ (is_null(key) \/ is_null(string_ref)) ->
            [status |-> kMIDIUnknownProperty, props |-> props]
      [] OTHER ->
            [status |-> noErr, props |-> Stored(object, key.text, StrV(string_ref.text))]

\* status, and the SInt32 written to the out parameter on success.
MIDIObjectGetIntegerProperty(object, key) ==
    LET cell == Cell(object, key.text) IN
    CASE ~alive[object] -> [status |-> kMIDIObjectNotFound, out |-> 0]
      [] alive[object] /\ (is_null(key) \/ cell.t = "unset") ->
            [status |-> kMIDIUnknownProperty, out |-> 0]
      [] alive[object] /\ ~is_null(key) /\ cell.t = "int" ->
            [status |-> noErr, out |-> cell.i]
      [] alive[object] /\ ~is_null(key) /\ cell.t \in {"str", "null"} ->
            [status |-> kMIDIWrongPropertyType, out |-> 0]

MIDIObjectSetIntegerProperty(object, key, value) ==
    CASE ~alive[object] -> [status |-> kMIDIObjectNotFound, props |-> props]
      [] alive[object] /\ is_null(key) ->
            [status |-> kMIDIUnknownProperty, props |-> props]
      [] OTHER ->
            [status |-> noErr, props |-> Stored(object, key.text, IntV(value))]

\* The record of one native call: the function, the handle, the text of the key
\* reference, the value passed in, the status and what came back.
NativeCall(fn, object, key, arg, status, out) ==
    [fn |-> fn, object |-> object, key |-> key.text, keyNull |-> is_null(key),
     arg |-> arg, status |-> status, out |-> out]

(***************************************************************************)
(* Raw accessors (src/src/properties/string.rs, integer.rs).  Each gives   *)
(* the Result returned, the store afterwards and the native calls made.    *)
(***************************************************************************)
\* string_property_inner with the NULL string of a successful get taken for a failure.
string_property_inner_null_is_error(object, key) ==
    LET r == MIDIObjectGetStringProperty(object, key)
    IN  [res |-> IF is_null(r.out) THEN Err(kMIDIUnknownProperty)
                 ELSE result_from_status(r.status, StrV(to_string(r.out))),
         props |-> props,
         native |-> <<NativeCall("MIDIObjectGetStringProperty", object, key, UnitV,
                                 r.status, IF is_null(r.out) THEN NullV ELSE StrV(r.out.text))>>]

string_property_inner(object, key) ==
    LET r == MIDIObjectGetStringProperty(object, key)
        value == IF is_null(r.out) THEN "" ELSE to_string(r.out)
    IN  [res |-> result_from_status(r.status, StrV(value)),
         props |-> props,
         native |-> <<NativeCall("MIDIObjectGetStringProperty", object, key, UnitV,
                                 r.status, IF is_null(r.out) THEN NullV ELSE StrV(r.out.text))>>]

\* set_string_property_inner dropping the status of the native set.
set_string_property_inner_drops_status(object, key, value, a) ==
    LET string == CFString_new(value, a)
        string_ref == as_concrete_TypeRef(string)
        r == MIDIObjectSetStringProperty(object, key, string_ref)
    IN  [res |-> Ok(UnitV),
         props |-> r.props,
         native |-> <<NativeCall("MIDIObjectSetStringProperty", object, key,
                                 StrV(string_ref.text), r.status, UnitV)>>]

\* set_string_property_inner handing the key, not string_ref, to the native set.
set_string_property_inner_key_as_value(object, key, value, a) ==
    LET r == MIDIObjectSetStringProperty(object, key, key)
    IN  [res |-> unit_result_from_status(r.status),
         props |-> r.props,
         native |-> <<NativeCall("MIDIObjectSetStringProperty", object, key,
                                 StrV(key.text), r.status, UnitV)>>]

\* a is the address of the CFString allocated for the value.
set_string_property_inner(object, key, value, a) ==
    LET string == CFString_new(value, a)
        string_ref == as_concrete_TypeRef(string)
        r == MIDIObjectSetStringProperty(object, key, string_ref)
    IN  [res |-> unit_result_from_status(r.status),
         props |-> r.props,
         native |-> <<NativeCall("MIDIObjectSetStringProperty", object, key,
                                 StrV(string_ref.text), r.status, UnitV)>>]

\* int_property_inner handing back the out parameter whatever the status.
int_property_inner_ignores_status(object, key) ==
    LET r == MIDIObjectGetIntegerProperty(object, key)
    IN  [res |-> Ok(IntV(r.out)),
         props |-> props,
         native |-> <<NativeCall("MIDIObjectGetIntegerProperty", object, key, UnitV,
                                 r.status, IntV(r.out))>>]

\* int_property_inner as object.rs imports it (get_integer_property_inner in integer.rs)
int_property_inner(object, key) ==
    LET r == MIDIObjectGetIntegerProperty(object, key)
    IN  [res |-> result_from_status(r.status, IntV(r.out)),
         props |-> props,
         native |-> <<NativeCall("MIDIObjectGetIntegerProperty", object, key, UnitV,
                                 r.status, IntV(r.out))>>]

\* The low 16 bits of v as a signed number (v as i16).
AsI16(v) == (((v % 65536) + 32768) % 65536) - 32768

\* set_int_property_inner narrowing the value to 16 bits on the way.
set_int_property_inner_i16(object, key, value) ==
    LET r == MIDIObjectSetIntegerProperty(object, key, AsI16(value))
    IN  [res |-> unit_result_from_status(r.status),
         props |-> r.props,
         native |-> <<NativeCall("MIDIObjectSetIntegerProperty", object, key,
                                 IntV(AsI16(value)), r.status, UnitV)>>]

\* set_int_property_inner reporting a failure for the status noErr.
set_int_property_inner_err_on_noErr(object, key, value) ==
    LET r == MIDIObjectSetIntegerProperty(object, key, value)
    IN  [res |-> IF r.status = noErr THEN Err(kMIDIUnknownProperty) ELSE Err(r.status),
         props |-> r.props,
         native |-> <<NativeCall("MIDIObjectSetIntegerProperty", object, key,
                                 IntV(value), r.status, UnitV)>>]

\* set_int_property_inner as object.rs imports it (set_integer_property_inner in integer.rs)
set_int_property_inner(object, key, value) ==
    LET r == MIDIObjectSetIntegerProperty(object, key, value)
    IN  [res |-> unit_result_from_status(r.status),
         props |-> r.props,
         native |-> <<NativeCall("MIDIObjectSetIntegerProperty", object, key,
                                 IntV(value), r.status, UnitV)>>]

(***************************************************************************)
(* impl Object (src/src/object.rs).  key is the TypedPropertyKey that      *)
(* key.into() produced.                                                    *)
(***************************************************************************)
\* set_string_property that leaves a property alone once it has a value.
set_string_property_keep_existing(object, key, value, a) ==
    LET got == string_property_inner(object, as_string_ref(key))
        put == set_string_property_inner(object, as_string_ref(key), value, a)
    IN  IF got.res.ok
        THEN [res |-> Ok(UnitV), props |-> props, native |-> got.native]
        ELSE [put EXCEPT !.native = got.native \o put.native]

\* set_string_property writing under the Name constant whatever its key.
set_string_property_always_name(object, key, value, a) ==
    set_string_property_inner(object, kMIDIPropertyName, value, a)

\* set_string_property clearing the property before writing it: two native sets.
set_string_property_clear_first(object, key, value, a) ==
    LET clear == set_string_property_inner(object, as_string_ref(key), "", a)
        put   == set_string_property_inner(object, as_string_ref(key), value, a)
    IN  [put EXCEPT !.native = clear.native \o put.native]

set_string_property(object, key, value, a) ==
    set_string_property_inner(object, as_string_ref(key), value, a)

string_property(object, key) ==
    string_property_inner(object, as_string_ref(key))

set_int_property(object, key, value) ==
    set_int_property_inner(object, as_string_ref(key), value)

\* int_property calling the native get a second time when the first call fails.
int_property_retry_once(object, key) ==
    LET first  == int_property_inner(object, as_string_ref(key))
        second == int_property_inner(object, as_string_ref(key))
    IN  IF first.res.ok THEN first
        ELSE [second EXCEPT !.native = first.native \o second.native]

int_property(object, key) ==
    int_property_inner(object, as_string_ref(key))

\* set_bool_property with the two integers exchanged.
set_bool_property_inverted(object, key, value) ==
    LET v == IF value THEN 0 ELSE 1
    IN  set_int_property_inner(object, as_string_ref(key), v)

set_bool_property(object, key, value) ==
    LET v == IF value THEN 1 ELSE 0
    IN  set_int_property_inner(object, as_string_ref(key), v)

\* Result::map(|val| val != 0)
map_ne_0(res) ==
    IF res.ok THEN Ok(BoolV(res.v.i # 0)) ELSE res

\* Result::map(|val| val == 1)
map_eq_1(res) ==
    IF res.ok THEN Ok(BoolV(res.v.i = 1)) ELSE res

\* bool_property comparing the integer with 0, not with 1.
bool_property_eq_0(object, key) ==
    LET r == int_property_inner(object, as_string_ref(key))
    IN  [r EXCEPT !.res = IF r.res.ok THEN Ok(BoolV(r.res.v.i = 0)) ELSE r.res]

bool_property(object, key) ==
    LET r == int_property_inner(object, as_string_ref(key))
    IN  [r EXCEPT !.res = map_eq_1(r.res)]

\* Result::ok: Option<T> of a Result<T, OSStatus>
Result_ok(res) ==
    IF res.ok THEN [some |-> TRUE, v |-> res.v] ELSE [some |-> FALSE, v |-> UnitV]

\* v as u32: the 32 bits of the SInt32 v, as the two 16-bit halves of the u32.
as_u32(v) ==
    [t |-> "u32", s |-> "", i |-> v % 65536, hi |-> (v \div 65536) % 65536]

\* Option::map with a checked conversion, None for a negative v.
map_as_u32_checked(opt) ==
    IF opt.some /\ opt.v.i >= 0 THEN [some |-> TRUE, v |-> as_u32(opt.v.i)]
    ELSE [some |-> FALSE, v |-> UnitV]

\* Option::map(|v: SInt32| v as u32)
map_as_u32(opt) ==
    IF opt.some THEN [some |-> TRUE, v |-> as_u32(opt.v.i)] ELSE opt

\* In name, unique_id and display_name the key is a K, and key.into() of a K is
\* Standard(K) (mod.rs:109-111).

\* Object::name with unwrap_or_default before Some, for ok().
Object_name_unwrap_or_default(object) ==
    LET r == string_property(object, Standard("String", "Name"))
    IN  [r EXCEPT !.res = [some |-> TRUE, v |-> IF r.res.ok THEN r.res.v ELSE StrV("")]]

\* Object::name
Object_name(object) ==
    LET r == string_property(object, Standard("String", "Name"))
    IN  [r EXCEPT !.res = Result_ok(r.res)]

\* Object::unique_id
Object_unique_id(object) ==
    LET r == int_property(object, Standard("Integer", "UniqueId"))
    IN  [r EXCEPT !.res = map_as_u32(Result_ok(r.res))]

\* Object::display_name
Object_display_name(object) ==
    LET r == string_property(object,
                             Standard("String", "DisplayName"))
    IN  [r EXCEPT !.res = Result_ok(r.res)]

(***************************************************************************)
(* The accessor calls a program makes after the tests' setup().            *)
(***************************************************************************)
\* NAME_ORIG of the tests, and the name given to Client::new.
NAME_ORIG == "A"
ClientName == "Test Client"

StringKeyArgs  == {PropArg("Name"), StrArg("name"), StrArg(CustomText)}
IntegerKeyArgs == {PropArg("UniqueId"), StrArg("offline")}
BooleanKeyArgs == {PropArg("Offline"), StrArg("offline")}

\* Where CFString::new puts the key and the value of one accessor call: two
\* allocations alive together, so two addresses.  No accessor compares addresses.
KeyAddr == "heap1"
ValueAddr == "heap2"

EmptyDict == [text \in {} |-> Unset]

\* The text of the raw key a key argument stands for: the text itself, or the
\* text of the constant ("name": object.rs:284, "offline": mod.rs:368).
RawText(arg) ==
    IF arg.from = "str" THEN arg.text
    ELSE CASE arg.prop = "Name"     -> "name"
           [] arg.prop = "DisplayName" -> "displayName"
           [] arg.prop = "Offline"  -> "offline"
           [] arg.prop = "UniqueId" -> "uniqueID"

\* cell and live record what the store held under the key, and whether the
\* object existed, when the call was made.
NoCall == [op |-> "none", object |-> "client", key |-> StrArg(""), arg |-> UnitV,
           res |-> Ok(UnitV), native |-> <<>>, cell |-> Unset, live |-> FALSE]
NoSet  == [op |-> "none", object |-> "client", key |-> StrArg(""), arg |-> UnitV,
           before |-> Unset]

SetOps == {"set_string_property", "set_int_property", "set_bool_property"}

\* A handle can be used while its owner has it: the Client handle is consumed by
\* its drop, the VirtualDestination handle outlives the client.
Usable(object) == object = "client" => alive["client"]

NoMatch == [done |-> FALSE, ret |-> FALSE, calls |-> <<>>]

\* No PropertyName held.
NoHeld == [some |-> FALSE, cf |-> NULL]

\* Two callers of the accessors, and a caller that is in no call.
Threads == {"t1", "t2"}
Idle == [pc |-> "idle", op |-> "none", object |-> "dest", arg |-> StrArg(""), value |-> UnitV,
         key |-> Other("", NULL), calls |-> 0, keyLive |-> FALSE, res |-> Ok(UnitV),
         released |-> NULL]

\* Option<K> of a try_from_constant_string_ref, and ParsedPropertyName.
None == [some |-> FALSE, prop |-> ""]
Some(prop) == [some |-> TRUE, prop |-> prop]
Parsed(kind, prop, string) == [kind |-> kind, prop |-> prop, string |-> string]

\* bound records whether a client existed when the call was made.
NoName == [op |-> "none", name |-> NULL, kind |-> "", prop |-> "", bound |-> FALSE,
           ret |-> FALSE, tried |-> None, parsed |-> Parsed("Other", "", ""),
           arg |-> StrArg(""), key |-> Other("", NULL), guards |-> <<>>, shown |-> ""]

\* One accessor call: op on object with key argument key and value argument arg,
\* out being what the accessor did.
Accessor(op, object, key, arg, out) ==
    /\ Usable(object)
    /\ op \in SetOps => writes < MaxWrites
    /\ last' = [op |-> op, object |-> object, key |-> key, arg |-> arg,
                res |-> out.res, native |-> out.native,
                cell |-> Cell(object, RawText(key)), live |-> alive[object]]
    /\ props' = out.props
    /\ writes' = IF op \in SetOps THEN writes + 1 ELSE writes
    /\ lastSet' = IF op \in SetOps /\ out.res.ok
                  THEN [op |-> op, object |-> object, key |-> key, arg |-> arg,
                        before |-> Cell(object, RawText(key))]
                  ELSE lastSet
    /\ UNCHANGED <<clientCreated, alive, key1, key2, matched, pn, held, heap, th>>

SetStringProperty ==
    \E object \in Objects, key \in StringKeyArgs, value \in Texts :
        Accessor("set_string_property", object, key, StrV(value),
              set_string_property(object, TypedPropertyKey_from("String", key, KeyAddr),
                                  value, ValueAddr))

StringProperty_get ==
    \E object \in Objects, key \in StringKeyArgs :
        Accessor("string_property", object, key, UnitV,
              string_property(object, TypedPropertyKey_from("String", key, KeyAddr)))

SetIntProperty ==
    \E object \in Objects, key \in IntegerKeyArgs, value \in Int32Values :
        Accessor("set_int_property", object, key, IntV(value),
              set_int_property(object, TypedPropertyKey_from("Integer", key, KeyAddr), value))

IntProperty ==
    \E object \in Objects, key \in IntegerKeyArgs :
        Accessor("int_property", object, key, UnitV,
              int_property(object, TypedPropertyKey_from("Integer", key, KeyAddr)))

SetBoolProperty ==
    \E object \in Objects, key \in BooleanKeyArgs, value \in BOOLEAN :
        Accessor("set_bool_property", object, key, BoolV(value),
              set_bool_property(object, TypedPropertyKey_from("Boolean", key, KeyAddr), value))

BoolProperty ==
    \E object \in Objects, key \in BooleanKeyArgs :
        Accessor("bool_property", object, key, UnitV,
              bool_property(object, TypedPropertyKey_from("Boolean", key, KeyAddr)))

\* CoreMIDI comes to hold a text property for which its get reports success with
\* a NULL string (the case string_property_inner checks for).
NativeNullText ==
    \E object \in Objects, text \in {"name", CustomText} :
        /\ alive[object]
        /\ writes < MaxWrites
        /\ props' = Stored(object, text, NullV)
        /\ writes' = writes + 1
        /\ lastSet' = NoSet
        /\ UNCHANGED <<clientCreated, alive, last, key1, key2, matched, pn, held, heap, th>>

\* The Client is dropped: CoreMIDI disposes of it and of the endpoints it owns.
DropClient ==
    /\ alive["client"]
    /\ alive' = [object \in Objects |-> FALSE]
    /\ props' = [object \in Objects |-> EmptyDict]
    /\ lastSet' = NoSet
    /\ UNCHANGED <<clientCreated, writes, last, key1, key2, matched, pn, held, heap, th>>

\* The state after setup(): a Client named ClientName and a VirtualDestination
\* named NAME_ORIG; nothing else has been written.
Init ==
    /\ clientCreated = TRUE
    /\ alive = [object \in Objects |-> TRUE]
    /\ props = [object \in Objects |->
                  ("name" :> StrV(IF object = "dest" THEN NAME_ORIG ELSE ClientName))]
    /\ writes = 0
    /\ lastSet = NoSet
    /\ last = NoCall
    /\ key1 = NULL
    /\ key2 = NULL
    /\ matched = NoMatch
    /\ pn = NoName
    /\ held = NoHeld
    /\ heap = [a \in HeapAddrs |-> 0]
    /\ th = [t \in Threads |-> Idle]

Next ==
    \/ SetStringProperty
    \/ StringProperty_get
    \/ SetIntProperty
    \/ IntProperty
    \/ SetBoolProperty
    \/ BoolProperty
    \/ NativeNullText
    \/ DropClient

Spec == Init /\ [][Next]_vars

(***************************************************************************)
(* The convenience reads of impl Object, with the writes that change what  *)
(* they read.                                                              *)
(***************************************************************************)
SetNameOrDisplayName ==
    \E object \in Objects, key \in {PropArg("Name"), PropArg("DisplayName")}, value \in Texts :
        Accessor("set_string_property", object, key, StrV(value),
              set_string_property(object, TypedPropertyKey_from("String", key, KeyAddr),
                                  value, ValueAddr))

SetUniqueId ==
    \E object \in Objects, value \in Int32Values :
        Accessor("set_int_property", object, PropArg("UniqueId"), IntV(value),
              set_int_property(object,
                               TypedPropertyKey_from("Integer", PropArg("UniqueId"), KeyAddr),
                               value))

ObjectName ==
    \E object \in Objects :
        Accessor("name", object, PropArg("Name"), UnitV, Object_name(object))

ObjectUniqueId ==
    \E object \in Objects :
        Accessor("unique_id", object, PropArg("UniqueId"), UnitV, Object_unique_id(object))

ObjectDisplayName ==
    \E object \in Objects :
        Accessor("display_name", object, PropArg("DisplayName"), UnitV, Object_display_name(object))

NextReads ==
    \/ SetNameOrDisplayName
    \/ SetUniqueId
    \/ ObjectName
    \/ ObjectUniqueId
    \/ ObjectDisplayName
    \/ NativeNullText
    \/ DropClient

SpecReads == Init /\ [][NextReads]_vars

\* Every accessor of impl Object together.
NextObject == Next \/ NextReads

SpecObject == Init /\ [][NextObject]_vars

(***************************************************************************)
(* ObjectType (src/src/object.rs).                                         *)
(***************************************************************************)
\* The kMIDIObjectType_* constants of coremidi_sys (MIDIObjectType, an i32).
kMIDIObjectType ==
    [Other |-> -1, Device |-> 0, Entity |-> 1, Source |-> 2, Destination |-> 3,
     ExternalDevice |-> 16, ExternalEntity |-> 17, ExternalSource |-> 18,
     ExternalDestination |-> 19]

\* A variant of enum ObjectType.
ObjectTypeV(variant) == [t |-> "ObjectType", s |-> variant, i |-> 0]

\* ObjectType::from without its arm for kMIDIObjectType_ExternalDestination.
ObjectType_from_without_last_arm(value) ==
    IF value = kMIDIObjectType.Other THEN Ok(ObjectTypeV("Other"))
    ELSE IF value = kMIDIObjectType.Device THEN Ok(ObjectTypeV("Device"))
    ELSE IF value = kMIDIObjectType.Entity THEN Ok(ObjectTypeV("Entity"))
    ELSE IF value = kMIDIObjectType.Source THEN Ok(ObjectTypeV("Source"))
    ELSE IF value = kMIDIObjectType.Destination THEN Ok(ObjectTypeV("Destination"))
    ELSE IF value = kMIDIObjectType.ExternalDevice THEN Ok(ObjectTypeV("ExternalDevice"))
    ELSE IF value = kMIDIObjectType.ExternalEntity THEN Ok(ObjectTypeV("ExternalEntity"))
    ELSE IF value = kMIDIObjectType.ExternalSource THEN Ok(ObjectTypeV("ExternalSource"))
    ELSE Err(value)

\* ObjectType::from: the arms of the match in order; Err carries the i32 itself.
ObjectType_from(value) ==
    IF value = kMIDIObjectType.Other THEN Ok(ObjectTypeV("Other"))
    ELSE IF value = kMIDIObjectType.Device THEN Ok(ObjectTypeV("Device"))
    ELSE IF value = kMIDIObjectType.Entity THEN Ok(ObjectTypeV("Entity"))
    ELSE IF value = kMIDIObjectType.Source THEN Ok(ObjectTypeV("Source"))
    ELSE IF value = kMIDIObjectType.Destination THEN Ok(ObjectTypeV("Destination"))
    ELSE IF value = kMIDIObjectType.ExternalDevice THEN Ok(ObjectTypeV("ExternalDevice"))
    ELSE IF value = kMIDIObjectType.ExternalEntity THEN Ok(ObjectTypeV("ExternalEntity"))
    ELSE IF value = kMIDIObjectType.ExternalSource THEN Ok(ObjectTypeV("ExternalSource"))
    ELSE IF value = kMIDIObjectType.ExternalDestination
         THEN Ok(ObjectTypeV("ExternalDestination"))
    ELSE Err(value)

\* The i32 values handed to ObjectType::from: the constants and their
\* neighbours, the 0xffff of the test, and the two ends of i32.
ObjectTypeInputs == (-60..60) \cup {65535, MinI32, MaxI32}

ObjectTypeFrom ==
    \E value \in ObjectTypeInputs :
        /\ last' = [NoCall EXCEPT !.op = "ObjectType_from", !.arg = IntV(value),
                                  !.res = ObjectType_from(value)]
        /\ UNCHANGED <<clientCreated, alive, props, writes, lastSet, key1, key2, matched, pn, held, heap, th>>

NextObjectType ==
    \/ ObjectTypeFrom

SpecObjectType == Init /\ [][NextObjectType]_vars

(***************************************************************************)
(* PropertyName and ParsedPropertyName (src/src/properties/mod.rs).        *)
(***************************************************************************)
Kinds == {"String", "Integer", "Boolean"}

\* The arms of try_from_constant_string_ref of each enum, in order.
KeySetOf(kind) ==
    CASE kind = "String"  -> StringPropertyKeySet
      [] kind = "Integer" -> IntegerPropertyKeySet
      [] kind = "Boolean" -> BooleanPropertyKeySet

\* convert_property_key_set!: the first arm whose guard match_property_keys(x, key)
\* holds, or return None.
convert_property_key_set(match_var, set) ==
    LET hits == {i \in 1..Len(set) : match_property_keys(match_var, set[i].key).ret}
    IN  IF hits = {} THEN None
        ELSE Some(set[CHOOSE i \in hits : \A j \in hits : i <= j].prop)

\* K::try_from_constant_string_ref
try_from_constant_string_ref(kind, key) == convert_property_key_set(key, KeySetOf(kind))

\* struct PropertyName(CFString)
PropertyName(cf) == [cf |-> cf]

\* impl From<&str> for PropertyName
PropertyName_from_str(string, a) == PropertyName(CFString_new(string, a))

\* impl From<CFStringRef> for PropertyName (wrap_under_get_rule)
PropertyName_from_CFStringRef(string_ref) == PropertyName(string_ref)

\* impl From<StringProperty | IntegerProperty | BooleanProperty> for PropertyName
PropertyName_from_prop(kind, prop) ==
    PropertyName_from_CFStringRef(Into_CFStringRef(kind, prop))

\* PropertyName::parse without its try of BooleanProperty.
parse_without_boolean(self) ==
    LET string_ref == as_concrete_TypeRef(self.cf)
        s == try_from_constant_string_ref("String", string_ref)
        i == try_from_constant_string_ref("Integer", string_ref)
    IN  IF s.some THEN Parsed("String", s.prop, "")
        ELSE IF i.some THEN Parsed("Integer", i.prop, "")
        ELSE Parsed("Other", "", to_string(string_ref))

\* PropertyName::parse whose miss path hands back a new, empty String.
parse_miss_empty(self) ==
    LET string_ref == as_concrete_TypeRef(self.cf)
        s == try_from_constant_string_ref("String", string_ref)
        b == try_from_constant_string_ref("Boolean", string_ref)
        i == try_from_constant_string_ref("Integer", string_ref)
    IN  IF s.some THEN Parsed("String", s.prop, "")
        ELSE IF b.some THEN Parsed("Boolean", b.prop, "")
        ELSE IF i.some THEN Parsed("Integer", i.prop, "")
        ELSE Parsed("Other", "", "")

\* PropertyName::parse: StringProperty, then BooleanProperty, then
\* IntegerProperty, else Other(name.to_string()).
parse(self) ==
    LET string_ref == as_concrete_TypeRef(self.cf)
        s == try_from_constant_string_ref("String", string_ref)
        b == try_from_constant_string_ref("Boolean", string_ref)
        i == try_from_constant_string_ref("Integer", string_ref)
    IN  IF s.some THEN Parsed("String", s.prop, "")
        ELSE IF b.some THEN Parsed("Boolean", b.prop, "")
        ELSE IF i.some THEN Parsed("Integer", i.prop, "")
        ELSE Parsed("Other", "", to_string(string_ref))

\* The arms of K::try_from_constant_string_ref(key) whose guard runs: the match
\* takes its arms in order and stops at the first guard that holds.
guards_run(kind, key) ==
    LET set == KeySetOf(kind)
        hits == {i \in 1..Len(set) : match_property_keys(key, set[i].key).ret}
        n == IF hits = {} THEN Len(set) ELSE CHOOSE i \in hits : \A j \in hits : i <= j
    IN  [i \in 1..n |-> [kind |-> kind, prop |-> set[i].prop]]

\* The guards of parse with the or_else of IntegerProperty before that of
\* BooleanProperty.
parse_guards_integer_before_boolean(self) ==
    LET string_ref == as_concrete_TypeRef(self.cf)
        s == try_from_constant_string_ref("String", string_ref)
        i == try_from_constant_string_ref("Integer", string_ref)
    IN  guards_run("String", string_ref)
          \o (IF s.some THEN <<>>
              ELSE guards_run("Integer", string_ref)
                     \o (IF i.some THEN <<>> ELSE guards_run("Boolean", string_ref)))

\* The guards PropertyName::parse runs, in order: map and or_else run the next
\* try_from_constant_string_ref only when the one before gave None.
parse_guards(self) ==
    LET string_ref == as_concrete_TypeRef(self.cf)
        s == try_from_constant_string_ref("String", string_ref)
        b == try_from_constant_string_ref("Boolean", string_ref)
    IN  guards_run("String", string_ref)
          \o (IF s.some THEN <<>>
              ELSE guards_run("Boolean", string_ref)
                     \o (IF b.some THEN <<>> ELSE guards_run("Integer", string_ref)))

\* impl From<PropertyName> for ParsedPropertyName
ParsedPropertyName_from(unparsed) == parse(unparsed)

\* PropertyName::matches comparing the property's key with itself.
matches_other_with_other(self, kind, prop) ==
    LET other_key == Into_CFStringRef(kind, prop)
    IN  match_property_keys(other_key, other_key).ret

\* PropertyName::matches
matches(self, kind, prop) ==
    LET this_key == as_concrete_TypeRef(self.cf)
        other_key == Into_CFStringRef(kind, prop)
    IN  match_property_keys(this_key, other_key).ret

\* impl PartialEq<K> for PropertyName, impl PartialEq<PropertyName> for K
PropertyName_eq(self, kind, prop) == matches(self, kind, prop)

(***************************************************************************)
(* Key matching on its own: the raw references a program can hold before   *)
(* and after a client exists, handed to match_property_keys.               *)
(***************************************************************************)
\* Texts of freshly allocated keys: two that spell a constant and one that does not.
KeyTexts == {"name", "offline", "nOt_A_pRoPeRtY"}

\* The current values of some of the extern constants, of each kind (all NULL
\* before a client exists).
ConstantRefs ==
    {kMIDIPropertyName, kMIDIPropertyDisplayName, kMIDIPropertyUniqueID,
     kMIDIPropertyAdvanceScheduleTimeMuSec, kMIDIPropertyOffline}

KeyRefs ==
    {NULL} \cup ConstantRefs \cup {CFString_new(s, a) : s \in KeyTexts, a \in HeapAddrs}

\* Client::new: CoreMIDI binds its constants.
Client_new ==
    /\ ~clientCreated
    /\ clientCreated' = TRUE
    /\ UNCHANGED <<alive, props, writes, lastSet, last, key1, key2, matched, pn, held, heap, th>>

MatchPropertyKeys ==
    \E k1 \in KeyRefs, k2 \in KeyRefs :
        LET m == match_property_keys(k1, k2) IN
        /\ k1.addr = k2.addr => k1 = k2
        /\ key1' = k1
        /\ key2' = k2
        /\ matched' = [done |-> TRUE, ret |-> m.ret, calls |-> m.calls]
        /\ UNCHANGED <<clientCreated, alive, props, writes, lastSet, last, pn, held, heap, th>>

InitKeys ==
    /\ clientCreated = FALSE
    /\ alive = [object \in Objects |-> FALSE]
    /\ props = [object \in Objects |-> EmptyDict]
    /\ writes = 0
    /\ lastSet = NoSet
    /\ last = NoCall
    /\ key1 = NULL
    /\ key2 = NULL
    /\ matched = NoMatch
    /\ pn = NoName
    /\ held = NoHeld
    /\ heap = [a \in HeapAddrs |-> 0]
    /\ th = [t \in Threads |-> Idle]

NextKeys ==
    \/ Client_new
    \/ MatchPropertyKeys

SpecKeys == InitKeys /\ [][NextKeys]_vars

(***************************************************************************)
(* PropertyName on its own: names as a Notification or a caller makes      *)
(* them, compared with the standard properties and parsed, before and      *)
(* after a client exists.                                                  *)
(***************************************************************************)
\* Texts of freshly allocated names: the tests' (mod.rs:368, 378, 408), the doc
\* example's (mod.rs:148), one of an integer constant, and the empty text.
NameTexts ==
    {"", "name", "offline", "uniqueID", "nOt_A_pRoPeRtY", "nOt_A_rEaL_cOrEmIdI_pRoPerTy"}

AllStandard ==
    {[kind |-> "String", prop |-> p] : p \in StringProperty}
      \cup {[kind |-> "Integer", prop |-> p] : p \in IntegerProperty}
      \cup {[kind |-> "Boolean", prop |-> p] : p \in BooleanProperty}

\* The names a program can hold: made from text, or, once the constants are
\* bound, made from a standard property.
PropertyNames ==
    {PropertyName_from_str(s, KeyAddr) : s \in NameTexts}
      \cup (IF clientCreated
            THEN {PropertyName_from_prop(kp.kind, kp.prop) : kp \in AllStandard}
            ELSE {})

NameCall(op, name, kind, prop, ret, tried, parsed) ==
    /\ pn' = [NoName EXCEPT !.op = op, !.name = name, !.kind = kind, !.prop = prop,
                            !.bound = clientCreated, !.ret = ret, !.tried = tried,
                            !.parsed = parsed]
    /\ UNCHANGED <<clientCreated, alive, props, writes, lastSet, last, key1, key2, matched, held, heap, th>>

\* name == property, property == name
PropertyNameEq ==
    \E name \in PropertyNames, kp \in AllStandard :
        NameCall("eq", name.cf, kp.kind, kp.prop,
                 PropertyName_eq(name, kp.kind, kp.prop), None, NoName.parsed)

\* name.parse()
PropertyNameParse ==
    \E name \in PropertyNames :
        /\ pn' = [NoName EXCEPT !.op = "parse", !.name = name.cf, !.bound = clientCreated,
                                !.parsed = parse(name), !.guards = parse_guards(name)]
        /\ UNCHANGED <<clientCreated, alive, props, writes, lastSet, last,
                       key1, key2, matched, held, heap, th>>

\* ParsedPropertyName::from(name)
ParsedPropertyNameFrom ==
    \E name \in PropertyNames :
        NameCall("from", name.cf, "", "", FALSE, None, ParsedPropertyName_from(name))

\* K::try_from_constant_string_ref(key), key any reference the crate can hold
TryFromConstantStringRef ==
    \E kind \in Kinds, key \in KeyRefs \cup {n.cf : n \in PropertyNames} :
        NameCall("try_from", key, kind, "", FALSE,
                 try_from_constant_string_ref(kind, key), NoName.parsed)

\* The key arguments a caller can hand to an accessor of kind K: any text, any K.
KeyArgs(kind) ==
    {StrArg(s) : s \in NameTexts}
      \cup {PropArg(kp.prop) : kp \in {x \in AllStandard : x.kind = kind}}

\* key.into(), the conversion every accessor of impl Object starts with
KeyFrom ==
    \E kind \in Kinds :
        \E arg \in KeyArgs(kind) :
            /\ pn' = [NoName EXCEPT !.op = "key_from", !.kind = kind, !.arg = arg,
                                    !.bound = clientCreated,
                                    !.key = TypedPropertyKey_from(kind, arg, KeyAddr)]
            /\ UNCHANGED <<clientCreated, alive, props, writes, lastSet, last,
                           key1, key2, matched, held, heap, th>>

NextNames ==
    \/ Client_new
    \/ KeyFrom
    \/ PropertyNameEq
    \/ PropertyNameParse
    \/ ParsedPropertyNameFrom
    \/ TryFromConstantStringRef

SpecNames == InitKeys /\ [][NextNames]_vars

(***************************************************************************)
(* A PropertyName held by a program, and the CFString behind it.           *)
(***************************************************************************)
MaxClones == 2

\* The allocations CFString::new made are reference counted; the constants of
\* CoreMIDI and NULL are not the crate's to count.
Counted(ref) == ref.addr \in HeapAddrs

\* CFRetain and CFRelease of CoreFoundation; the allocation is freed at count 0.
CFRetain(h, ref) == IF Counted(ref) THEN [h EXCEPT ![ref.addr] = @ + 1] ELSE h
CFRelease(h, ref) ==
    IF Counted(ref) /\ h[ref.addr] > 0 THEN [h EXCEPT ![ref.addr] = @ - 1] ELSE h

Live(h, ref) == Counted(ref) => h[ref.addr] > 0

\* What a read through ref can find: the string, or any text once the
\* allocation has been freed.
Deref(h, ref) ==
    IF Live(h, ref) THEN {ref} ELSE {[addr |-> ref.addr, text |-> s] : s \in NameTexts}

\* The heap after parse() with wrap_under_create_rule on the miss path: the
\* temporary CFString takes over a reference it was never given.
parse_heap_create_rule(h, self) ==
    IF parse(self).kind = "Other" THEN CFRelease(h, self.cf) ELSE h

\* The heap after parse(): on the miss path wrap_under_get_rule retains the
\* string for the temporary CFString name, whose drop releases it.
parse_heap(h, self) ==
    IF parse(self).kind = "Other" THEN CFRelease(CFRetain(h, self.cf), self.cf) ELSE h

\* #[derive(Clone)] on PropertyName(CFString): CFString::clone retains.
PropertyName_clone(h, self) == CFRetain(h, self.cf)

\* impl PartialEq for PropertyName
PropertyName_eq_PropertyName(self, other) ==
    LET this_key  == as_concrete_TypeRef(self.cf)
        other_key == as_concrete_TypeRef(other.cf)
    IN  match_property_keys(this_key, other_key).ret

\* impl fmt::Display for PropertyName
PropertyName_fmt(self) == to_string(self.cf)

HeldVars == <<clientCreated, alive, props, writes, lastSet, last, key1, key2, matched, th>>

\* One standard property of each kind.
HeldStandard ==
    {[kind |-> "String", prop |-> "Name"], [kind |-> "Integer", prop |-> "UniqueId"],
     [kind |-> "Boolean", prop |-> "Offline"]}

\* The names a program holds here: made from a text of KeyTexts, or, once the
\* constants are bound, from a property of HeldStandard.
HeldNames ==
    {PropertyName_from_str(s, KeyAddr) : s \in KeyTexts}
      \cup (IF clientCreated
            THEN {PropertyName_from_prop(kp.kind, kp.prop) : kp \in HeldStandard}
            ELSE {})

\* PropertyName::from(text) or PropertyName::from(standard property)
HoldName ==
    /\ ~held.some
    /\ heap[KeyAddr] = 0
    /\ \E name \in HeldNames :
          /\ held' = [some |-> TRUE, cf |-> name.cf]
          /\ heap' = CFRetain(heap, name.cf)
    /\ UNCHANGED <<HeldVars, pn>>

\* held.parse()
HeldParse ==
    /\ held.some
    /\ \E seen \in Deref(heap, held.cf) :
          pn' = [NoName EXCEPT !.op = "parse", !.name = held.cf, !.bound = clientCreated,
                               !.parsed = parse(PropertyName(seen))]
    /\ heap' = parse_heap(heap, PropertyName(held.cf))
    /\ UNCHANGED <<HeldVars, held>>

\* held == property, property == held
HeldEq ==
    /\ held.some
    /\ \E kp \in HeldStandard, seen \in Deref(heap, held.cf) :
          pn' = [NoName EXCEPT !.op = "eq", !.name = held.cf, !.bound = clientCreated,
                               !.kind = kp.kind, !.prop = kp.prop,
                               !.ret = PropertyName_eq(PropertyName(seen), kp.kind, kp.prop)]
    /\ UNCHANGED <<HeldVars, held, heap>>

\* held == PropertyName::from(text)
HeldEqName ==
    /\ held.some
    /\ \E s \in KeyTexts, seen \in Deref(heap, held.cf) :
          pn' = [NoName EXCEPT !.op = "eq_name", !.name = held.cf, !.bound = clientCreated,
                               !.arg = StrArg(s),
                               !.ret = PropertyName_eq_PropertyName(
                                           PropertyName(seen),
                                           PropertyName_from_str(s, ValueAddr))]
    /\ UNCHANGED <<HeldVars, held, heap>>

\* held.to_string()
HeldToString ==
    /\ held.some
    /\ \E seen \in Deref(heap, held.cf) :
          pn' = [NoName EXCEPT !.op = "to_string", !.name = held.cf, !.bound = clientCreated,
                               !.shown = PropertyName_fmt(PropertyName(seen))]
    /\ UNCHANGED <<HeldVars, held, heap>>

\* held.clone(); the clone is kept
HeldClone ==
    /\ held.some
    /\ Counted(held.cf) => heap[held.cf.addr] <= MaxClones
    /\ pn' = [NoName EXCEPT !.op = "clone", !.name = held.cf, !.bound = clientCreated]
    /\ heap' = PropertyName_clone(heap, PropertyName(held.cf))
    /\ UNCHANGED <<HeldVars, held>>

\* a clone is dropped
DropClone ==
    /\ held.some
    /\ Counted(held.cf)
    /\ heap[held.cf.addr] > 1
    /\ heap' = CFRelease(heap, held.cf)
    /\ UNCHANGED <<HeldVars, held, pn>>

\* the name is dropped, after its clones
DropName ==
    /\ held.some
    /\ Counted(held.cf) => heap[held.cf.addr] <= 1
    /\ heap' = CFRelease(heap, held.cf)
    /\ held' = NoHeld
    /\ UNCHANGED <<HeldVars, pn>>

NextHeld ==
    \/ Client_new
    \/ HoldName
    \/ HeldParse
    \/ HeldEq
    \/ HeldEqName
    \/ HeldToString
    \/ HeldClone
    \/ DropClone
    \/ DropName

SpecHeld == InitKeys /\ [][NextHeld]_vars

(***************************************************************************)
(* Two callers inside accessors of impl Object on one object and one raw   *)
(* key.  A call is three steps: `let key = key.into();`, the native call   *)
(* of the inner accessor, and the return, where the locals are dropped.    *)
(***************************************************************************)
\* The key made by key.into() as a temporary, dropped at the end of its statement.
key_scope_statement == "statement"

\* `let key = key.into();` binds the key to the end of the accessor's body.
key_scope == "function"

\* The kind of key an accessor takes.
KindOf(op) ==
    CASE op \in {"set_string_property", "string_property"} -> "String"
      [] op \in {"set_int_property", "int_property"}       -> "Integer"
      [] op \in {"set_bool_property", "bool_property"}     -> "Boolean"

\* The key arguments of kind that stand for the raw key text: a text, and the
\* standard property with that text where the kind has one.
ConcKeyArgs(kind, text) ==
    {StrArg(text)}
      \cup (IF kind = "String" /\ text = "name" THEN {PropArg("Name")} ELSE {})
      \cup (IF kind = "Boolean" /\ text = "offline" THEN {PropArg("Offline")} ELSE {})

\* The calls a caller can make on the raw key text.
ConcCalls(text) ==
    UNION {
      {[op |-> "set_string_property", arg |-> a, value |-> StrV(v)] :
           a \in ConcKeyArgs("String", text), v \in {"A", "B"}},
      {[op |-> "string_property", arg |-> a, value |-> UnitV] :
           a \in ConcKeyArgs("String", text)},
      {[op |-> "set_int_property", arg |-> a, value |-> IntV(v)] :
           a \in ConcKeyArgs("Integer", text), v \in {-1, 2}},
      {[op |-> "int_property", arg |-> a, value |-> UnitV] :
           a \in ConcKeyArgs("Integer", text)},
      {[op |-> "set_bool_property", arg |-> a, value |-> BoolV(v)] :
           a \in ConcKeyArgs("Boolean", text), v \in BOOLEAN},
      {[op |-> "bool_property", arg |-> a, value |-> UnitV] :
           a \in ConcKeyArgs("Boolean", text)} }

\* Where CFString::new puts the key of each caller: the two keys can be alive
\* together.
AddrOf(t) == IF t = "t1" THEN "heap1" ELSE "heap2"

OtherThread(t) == CHOOSE u \in Threads : u # t

\* The accessor of impl Object a caller is in, with the key as the native call
\* finds it.
RunAccessor(c, key) ==
    CASE c.op = "set_string_property" -> set_string_property(c.object, key, c.value.s, ValueAddr)
      [] c.op = "string_property"     -> string_property(c.object, key)
      [] c.op = "set_int_property"    -> set_int_property(c.object, key, c.value.i)
      [] c.op = "int_property"        -> int_property(c.object, key)
      [] c.op = "set_bool_property"   -> set_bool_property(c.object, key, c.value.i = 1)
      [] c.op = "bool_property"       -> bool_property(c.object, key)

\* The store after one native call made on its own.
ApplyCall(call) ==
    LET key == IF call.keyNull THEN NULL ELSE [addr |-> "raw", text |-> call.key]
    IN  CASE call.fn = "MIDIObjectSetStringProperty" ->
                 MIDIObjectSetStringProperty(call.object, key,
                                             CFString_new(call.arg.s, ValueAddr)).props
          [] call.fn = "MIDIObjectSetIntegerProperty" ->
                 MIDIObjectSetIntegerProperty(call.object, key, call.arg.i).props
          [] OTHER -> props

ConcVars == <<clientCreated, alive, writes, lastSet, last, key1, key2, matched, pn, held>>

\* The caller enters an accessor: let key = key.into();
CallBegin(t) ==
    /\ th[t].pc = "idle"
    /\ \E text \in {"name", "offline"} :
          /\ th[OtherThread(t)].pc # "idle" => RawText(th[OtherThread(t)].arg) = text
          /\ \E call \in ConcCalls(text) :
                LET key == TypedPropertyKey_from(KindOf(call.op), call.arg, AddrOf(t))
                    made == IF key.tag = "Other" THEN CFRetain(heap, key.cf) ELSE heap
                IN  /\ heap' = IF key_scope = "function" THEN made
                               ELSE CFRelease(made, key.cf)
                    /\ th' = [th EXCEPT ![t] =
                                [Idle EXCEPT !.pc = "key", !.op = call.op, !.arg = call.arg,
                                             !.value = call.value, !.key = key,
                                             !.released = IF key_scope = "function" \/ key.tag # "Other"
                                                          THEN NULL ELSE key.cf]]
    /\ UNCHANGED <<ConcVars, props>>

\* One native call of the accessor, atomic in CoreMIDI; the last one gives the
\* accessor its result.
CallNative(t) ==
    /\ th[t].pc = "key"
    /\ \E seen \in Deref(heap, as_string_ref(th[t].key)) :
          LET key == IF th[t].key.tag = "Other" THEN Other(th[t].key.kind, seen) ELSE th[t].key
              out == RunAccessor(th[t], key)
          IN  IF th[t].calls + 1 < Len(out.native)
              THEN /\ props' = ApplyCall(out.native[th[t].calls + 1])
                   /\ th' = [th EXCEPT ![t].calls = @ + 1]
              ELSE /\ props' = out.props
                   /\ th' = [th EXCEPT ![t].calls = @ + 1, ![t].pc = "returned",
                                       ![t].res = out.res,
                                       ![t].keyLive = Live(heap, as_string_ref(th[t].key))]
    /\ UNCHANGED <<ConcVars, heap>>

\* The accessor returns: key goes out of scope.
CallReturn(t) ==
    /\ th[t].pc = "returned"
    /\ LET owned == key_scope = "function" /\ th[t].key.tag = "Other"
       IN  /\ heap' = IF owned THEN CFRelease(heap, th[t].key.cf) ELSE heap
           /\ th' = [th EXCEPT ![t].pc = "done",
                               ![t].released = IF owned THEN th[t].key.cf ELSE @]
    /\ UNCHANGED <<ConcVars, props>>

NextConc ==
    \E t \in Threads :
        \/ CallBegin(t)
        \/ CallNative(t)
        \/ CallReturn(t)

SpecConc == Init /\ [][NextConc]_vars

(***************************************************************************)
(* Properties of the accessors.  last is the most recent accessor call and *)
(* lastSet the most recent successful set; nothing has touched the store   *)
(* of lastSet.object since lastSet unless lastSet is NoSet.                *)
(***************************************************************************)
\* The integer set_bool_property stores for a bool.
Coerced(arg) == IntV(IF arg = BoolV(TRUE) THEN 1 ELSE 0)

\* last reads, with the accessor get, what lastSet wrote with the accessor set,
\* on the same object and with the same key argument.
ReadsBack(get, set) ==
    /\ last.op = get
    /\ lastSet.op = set
    /\ last.object = lastSet.object
    /\ last.key = lastSet.key

\* C1: a text read that follows a successful text write of v on the same object
\* under the same key returns Ok(v).
C1_TextRoundTrip ==
    ReadsBack("string_property", "set_string_property") => last.res = Ok(lastSet.arg)

C1_Witness ==
    /\ ReadsBack("string_property", "set_string_property")
    /\ last.key = StrArg(CustomText)
    /\ lastSet.arg = StrV("B")
    /\ last.res = Ok(StrV("B"))

\* C2: an integer read that follows a successful integer write of v on the same
\* object under the same key returns Ok(v), for every 32-bit v, the two ends of
\* the range included.
C2_IntRoundTrip ==
    ReadsBack("int_property", "set_int_property") => last.res = Ok(lastSet.arg)

C2_Witness ==
    /\ ReadsBack("int_property", "set_int_property")
    /\ last.key = PropArg("UniqueId")
    /\ lastSet.arg = IntV(MinI32)
    /\ last.res = Ok(IntV(MinI32))

\* C3: set_bool_property makes exactly one native call, the integer set, under
\* the raw key of its key argument, with 1 for true and 0 for false; an integer
\* read of that raw key afterwards returns that 1 or 0.
C3_BoolWriteCoercion ==
    /\ last.op = "set_bool_property" =>
          /\ Len(last.native) = 1
          /\ last.native[1].fn = "MIDIObjectSetIntegerProperty"
          /\ last.native[1].object = last.object
          /\ last.native[1].key = RawText(last.key)
          /\ last.native[1].arg = Coerced(last.arg)
    /\ ( /\ last.op = "int_property"
         /\ lastSet.op = "set_bool_property"
         /\ last.object = lastSet.object
         /\ RawText(last.key) = RawText(lastSet.key) )
       => last.res = Ok(Coerced(lastSet.arg))

C3_Witness ==
    /\ last.op = "int_property"
    /\ lastSet.op = "set_bool_property"
    /\ last.object = lastSet.object
    /\ lastSet.key = PropArg("Offline")
    /\ last.key = StrArg("offline")
    /\ lastSet.arg = BoolV(TRUE)
    /\ last.res = Ok(IntV(1))

\* What C4 says bool_property returns, given what int_property returns.
Narrowed(res) == IF res.ok THEN Ok(BoolV(res.v.i = 1)) ELSE Err(res.status)

\* C4: bool_property makes one native integer get under the raw key and returns
\* Ok(true) for a stored 1, Ok(false) for any other stored integer and Err(s),
\* s the native status, when the get fails; in every state it returns what
\* int_property returns for the same raw key, mapped that way.
C4_BoolReadNarrowing ==
    /\ last.op = "bool_property" =>
          /\ Len(last.native) = 1
          /\ last.native[1].fn = "MIDIObjectGetIntegerProperty"
          /\ last.native[1].key = RawText(last.key)
          /\ IF last.live /\ last.cell.t = "int"
             THEN last.res = Ok(BoolV(last.cell.i = 1))
             ELSE /\ last.native[1].status # noErr
                  /\ last.res = Err(last.native[1].status)
    /\ \A object \in Objects, key \in BooleanKeyArgs :
          bool_property(object, TypedPropertyKey_from("Boolean", key, KeyAddr)).res
            = Narrowed(int_property(object,
                         TypedPropertyKey_from("Integer", StrArg(RawText(key)), KeyAddr)).res)

C4_Witness ==
    /\ last.op = "bool_property"
    /\ last.live
    /\ last.cell = IntV(2)
    /\ last.res = Ok(BoolV(FALSE))

\* C5: a bool read that follows a successful bool write of b on the same object
\* under the same key returns Ok(b).
C5_BoolRoundTrip ==
    ReadsBack("bool_property", "set_bool_property") => last.res = Ok(lastSet.arg)

C5_Witness ==
    /\ ReadsBack("bool_property", "set_bool_property")
    /\ last.key = PropArg("Offline")
    /\ lastSet.arg = BoolV(FALSE)
    /\ last.res = Ok(BoolV(FALSE))

\* C6: an integer or bool read of a property that an existing object does not
\* hold returns Err with the failing native status, never an Ok default.
C6_UnsetReadIsErr ==
    (last.op \in {"int_property", "bool_property"} /\ last.live /\ last.cell = Unset)
    => /\ ~last.res.ok
       /\ last.native[1].status # noErr
       /\ last.res = Err(last.native[1].status)

C6_Witness ==
    /\ writes = 0
    /\ last.op = "int_property"
    /\ last.object = "dest"
    /\ last.key = PropArg("UniqueId")
    /\ last.live
    /\ last.cell = Unset
    /\ last.res = Err(kMIDIUnknownProperty)

\* C7: a text read whose native get reports success and hands back a null
\* string returns Ok(""); a text read returns Err exactly when the native
\* status is a failure, and then Err of that status.
C7_NullTextIsEmpty ==
    last.op = "string_property" =>
        /\ Len(last.native) = 1
        /\ (last.native[1].status = noErr /\ last.native[1].out = NullV)
              => last.res = Ok(StrV(""))
        /\ ~last.res.ok <=> last.native[1].status # noErr
        /\ ~last.res.ok => last.res = Err(last.native[1].status)

C7_Witness ==
    /\ last.op = "string_property"
    /\ last.cell = NullV
    /\ last.native[1].status = noErr
    /\ last.native[1].out = NullV
    /\ last.res = Ok(StrV(""))

\* C8: when a text property that already had a value (the name given at
\* creation, or an earlier write) is written again, a read returns the value
\* written last and not the one it replaced.
C8_LastWriteWins ==
    (ReadsBack("string_property", "set_string_property") /\ lastSet.before.t = "str")
    => /\ last.res.ok
       /\ last.res.v = lastSet.arg
       /\ lastSet.before # lastSet.arg => last.res.v # lastSet.before

C8_Witness ==
    /\ ReadsBack("string_property", "set_string_property")
    /\ last.object = "dest"
    /\ last.key = PropArg("Name")
    /\ lastSet.before = StrV(NAME_ORIG)
    /\ lastSet.arg = StrV("B")
    /\ last.res = Ok(StrV("B"))

\* C9: a custom key made from the text of a standard key is the same property
\* as the standard key, and so are two custom keys of equal text: the value
\* given at creation is read through the custom key, and a write through any of
\* these keys is read back through any other.
C9_CustomKeyAliasesStandard ==
    /\ (last.op = "string_property" /\ last.live /\ writes = 0
          /\ RawText(last.key) = "name")
       => last.res = Ok(StrV(IF last.object = "dest" THEN NAME_ORIG ELSE ClientName))
    /\ ( /\ last.op = "string_property"
         /\ lastSet.op = "set_string_property"
         /\ last.object = lastSet.object
         /\ RawText(last.key) = RawText(lastSet.key) )
       => last.res = Ok(lastSet.arg)

C9_Witness ==
    /\ last.op = "string_property"
    /\ lastSet.op = "set_string_property"
    /\ last.object = lastSet.object
    /\ lastSet.key = StrArg("name")
    /\ last.key = PropArg("Name")
    /\ lastSet.arg = StrV("B")
    /\ last.res = Ok(StrV("B"))

(***************************************************************************)
(* Properties of match_property_keys, under SpecKeys.                      *)
(***************************************************************************)
\* C10: match_property_keys returns false when either key is null, both null
\* included, and makes no call of the equality primitive then.
C10_NullNeverMatches ==
    (matched.done /\ (is_null(key1) \/ is_null(key2)))
    => /\ matched.ret = FALSE
       /\ matched.calls = <<>>

C10_Witness ==
    /\ matched.done
    /\ clientCreated
    /\ is_null(key1)
    /\ key2 = kMIDIPropertyName
    /\ ~is_null(key2)
    /\ matched.ret = FALSE

FreshName == pn.name.addr = KeyAddr

\* The text of the constant of a standard property, once bound.
ConstantText(kind, prop) == to_string(Into_CFStringRef(kind, prop))

\* C12: after a client has been created, a PropertyName made from fresh text
\* compares equal to a standard property exactly when the text is the text of
\* that property's constant.
C12_NameEqualsPropertyByText ==
    (pn.op = "eq" /\ pn.bound /\ FreshName)
    => (pn.ret <=> pn.name.text = ConstantText(pn.kind, pn.prop))

C12_Witness ==
    /\ pn.op = "eq"
    /\ pn.bound
    /\ pn.name = CFString_new("offline", KeyAddr)
    /\ pn.kind = "Boolean"
    /\ pn.prop = "Offline"
    /\ pn.ret

C14_ParseEveryConstant ==
    (pn.op = "parse" /\ pn.bound)
    => \A kp \in AllStandard :
          pn.name = Into_CFStringRef(kp.kind, kp.prop)
          => pn.parsed = Parsed(kp.kind, kp.prop, "")

C14_Witness ==
    /\ pn.op = "parse"
    /\ pn.bound
    /\ pn.name = kMIDIPropertyMaxReceiveChannels
    /\ pn.parsed = Parsed("Integer", "MaxRecieveChannels", "")

\* C15: parse() on a name that matches no standard constant of any kind (no
\* client existed, or the text is that of no constant) gives Other(s), s the
\* text of the name unchanged.
C15_ParseMiss ==
    ( /\ pn.op \in {"parse", "from"}
      /\ ~pn.bound \/ \A kp \in AllStandard : pn.name.text # ConstantText(kp.kind, kp.prop) )
    => pn.parsed = Parsed("Other", "", pn.name.text)

C15_Witness ==
    /\ pn.op = "parse"
    /\ pn.bound
    /\ pn.name.text = "nOt_A_rEaL_cOrEmIdI_pRoPerTy"
    /\ pn.parsed = Parsed("Other", "", "nOt_A_rEaL_cOrEmIdI_pRoPerTy")

\* C16: a TypedPropertyKey<K> made from a &str or String is always Other, owning
\* an allocation of that text, also when the text spells a constant of K; one
\* made from a K is Standard of that K, and nothing else is Standard.
C16_TextKeyIsOther ==
    pn.op = "key_from" =>
        /\ pn.arg.from = "str" =>
              /\ pn.key.tag = "Other"
              /\ ~is_null(pn.key.cf)
              /\ to_string(pn.key.cf) = pn.arg.text
        /\ pn.arg.from = "prop" => pn.key = Standard(pn.kind, pn.arg.prop)
        /\ pn.key.tag = "Standard" <=> pn.arg.from = "prop"

C16_Witness ==
    /\ pn.op = "key_from"
    /\ pn.bound
    /\ pn.kind = "String"
    /\ pn.arg = StrArg("name")
    /\ pn.arg.text = ConstantText("String", "Name")
    /\ pn.key.tag = "Other"

\* C19: while no client has been created the constants are not bound, and then
\* no name equals a standard property and try_from_constant_string_ref gives
\* None for every key, the constants themselves included; once a client exists
\* the name of a standard property equals that property.
C19_BeforeInitNothingMatches ==
    /\ (pn.op = "eq" /\ ~pn.bound) => ~pn.ret
    /\ (pn.op = "try_from" /\ ~pn.bound) => pn.tried = None
    /\ (pn.op \in {"parse", "from"} /\ ~pn.bound) => pn.parsed.kind = "Other"
    /\ (pn.op = "eq" /\ pn.bound /\ pn.name = Into_CFStringRef(pn.kind, pn.prop)) => pn.ret

C19_Witness ==
    /\ ~clientCreated
    /\ pn.op = "eq"
    /\ ~pn.bound
    /\ pn.name = CFString_new("name", KeyAddr)
    /\ pn.kind = "String"
    /\ pn.prop = "Name"
    /\ ~pn.ret

(***************************************************************************)
(* Properties of the convenience reads, under SpecReads.                   *)
(***************************************************************************)
\* None for Err, Some of the value for Ok.
Collapsed(res) ==
    IF res.ok THEN [some |-> TRUE, v |-> res.v] ELSE [some |-> FALSE, v |-> UnitV]

\* What the native get of last handed back, as the accessor under last returns it.
NativeValue ==
    CASE last.op = "unique_id" -> as_u32(last.native[1].out.i)
      [] last.native[1].out = NullV -> StrV("")
      [] OTHER -> last.native[1].out

\* C17: name(), display_name() and unique_id() make the one native get of
\* string_property(Name), string_property(DisplayName) and
\* int_property(UniqueId); they return None exactly when that accessor returns
\* Err and Some(value) exactly when it returns Ok(value), the value of
\* unique_id being the same 32 bits as a u32.
C17_ConvenienceReadsCollapse ==
    /\ last.op \in {"name", "display_name", "unique_id"} =>
          /\ Len(last.native) = 1
          /\ last.native[1].key = RawText(last.key)
          /\ last.native[1].fn = IF last.op = "unique_id"
                                 THEN "MIDIObjectGetIntegerProperty"
                                 ELSE "MIDIObjectGetStringProperty"
          /\ last.res.some <=> last.native[1].status = noErr
          /\ last.res.some => last.res.v = NativeValue
          /\ ~last.res.some => last.res.v = UnitV
    /\ \A object \in Objects :
          /\ Object_name(object).res
               = Collapsed(string_property(object, Standard("String", "Name")).res)
          /\ Object_display_name(object).res
               = Collapsed(string_property(object, Standard("String", "DisplayName")).res)
          /\ LET r == int_property(object, Standard("Integer", "UniqueId")).res
             IN  Object_unique_id(object).res
                   = IF r.ok THEN [some |-> TRUE, v |-> as_u32(r.v.i)] ELSE Collapsed(r)

C17_Witness ==
    /\ last.op = "display_name"
    /\ last.object = "dest"
    /\ last.live
    /\ last.cell = Unset
    /\ last.native[1].status = kMIDIUnknownProperty
    /\ last.res = [some |-> FALSE, v |-> UnitV]

(***************************************************************************)
(* Properties of the accessors, continued (under Spec).                    *)
(***************************************************************************)
\* C18: every get and set accessor makes one native call and returns Ok exactly
\* when the status of that call is noErr; a failing status s comes back as
\* Err(s), the same status.
C18_StatusPropagation ==
    last.op \in {"set_string_property", "string_property", "set_int_property",
                 "int_property", "set_bool_property", "bool_property"}
    => /\ Len(last.native) = 1
       /\ last.res.ok <=> last.native[1].status = noErr
       /\ last.native[1].status # noErr => last.res = Err(last.native[1].status)

C18_Witness ==
    /\ last.op = "set_string_property"
    /\ last.object = "dest"
    /\ ~last.live
    /\ last.native[1].status = kMIDIObjectNotFound
    /\ last.res = Err(kMIDIObjectNotFound)

(***************************************************************************)
(* Properties of ObjectType::from, under SpecObjectType.                   *)
(***************************************************************************)
\* The variant the tests expect for each constant (object.rs:264-274).
ObjectTypeExpected ==
    {<<kMIDIObjectType.Other, "Other">>, <<kMIDIObjectType.Device, "Device">>,
     <<kMIDIObjectType.Entity, "Entity">>, <<kMIDIObjectType.Source, "Source">>,
     <<kMIDIObjectType.Destination, "Destination">>,
     <<kMIDIObjectType.ExternalDevice, "ExternalDevice">>,
     <<kMIDIObjectType.ExternalEntity, "ExternalEntity">>,
     <<kMIDIObjectType.ExternalSource, "ExternalSource">>,
     <<kMIDIObjectType.ExternalDestination, "ExternalDestination">>}

\* C20: ObjectType::from gives Ok of the constant's own variant for each of the
\* nine kMIDIObjectType_* constants, different variants for different
\* constants, and Err(v), v the input, for every other i32.
C20_ObjectTypeFromTotal ==
    last.op = "ObjectType_from" =>
        LET v == last.arg.i IN
        /\ \A e \in ObjectTypeExpected : v = e[1] => last.res = Ok(ObjectTypeV(e[2]))
        /\ (\A e \in ObjectTypeExpected : v # e[1]) => last.res = Err(v)
        /\ \A e \in ObjectTypeExpected :
              (last.res.ok /\ e[1] # v) => ObjectType_from(e[1]) # last.res

C20_Witness ==
    /\ last.op = "ObjectType_from"
    /\ last.arg = IntV(kMIDIObjectType.ExternalDestination)
    /\ last.res = Ok(ObjectTypeV("ExternalDestination"))

(***************************************************************************)
(* Properties of PropertyName, continued (under SpecNames).                *)
(***************************************************************************)
\* Every variant, kind by kind in the order String, Boolean, Integer and in
\* declaration order within a kind.
DeclaredOrder ==
    [n \in 1..Len(StringPropertyVariants) |->
        [kind |-> "String", prop |-> StringPropertyVariants[n]]]
    \o [n \in 1..Len(BooleanPropertyVariants) |->
        [kind |-> "Boolean", prop |-> BooleanPropertyVariants[n]]]
    \o [n \in 1..Len(IntegerPropertyVariants) |->
        [kind |-> "Integer", prop |-> IntegerPropertyVariants[n]]]

\* The places of DeclaredOrder whose constant the key of pn matched when the
\* call was made: none while the constants were unbound.
MatchingPlaces ==
    {n \in 1..Len(DeclaredOrder) :
        /\ pn.bound
        /\ pn.name.text = ConstantText(DeclaredOrder[n].kind, DeclaredOrder[n].prop)}

\* C21: parse() compares the key with the variants of StringProperty, then of
\* BooleanProperty, then of IntegerProperty, each in declaration order, and
\* stops at the first that matches, which is its result; it gives Other only
\* after it has compared with every variant of the three.
C21_ParseOrder ==
    pn.op = "parse" =>
        IF MatchingPlaces = {}
        THEN /\ pn.guards = DeclaredOrder
             /\ pn.parsed.kind = "Other"
        ELSE LET first == CHOOSE n \in MatchingPlaces : \A m \in MatchingPlaces : n <= m
             IN  /\ pn.guards = SubSeq(DeclaredOrder, 1, first)
                 /\ pn.parsed = Parsed(DeclaredOrder[first].kind, DeclaredOrder[first].prop, "")

C21_Witness ==
    /\ pn.op = "parse"
    /\ pn.bound
    /\ pn.name = CFString_new("offline", KeyAddr)
    /\ Len(pn.guards) = Len(StringPropertyVariants) + 3
    /\ pn.guards[Len(pn.guards)] = [kind |-> "Boolean", prop |-> "Offline"]
    /\ pn.parsed = Parsed("Boolean", "Offline", "")

\* The arms of the three try_from_constant_string_ref whose constant the key of
\* pn matches.
MatchingArms ==
    {a \in {[kind |-> k, n |-> m] : k \in Kinds, m \in 1..Len(BooleanPropertyKeySet)} :
        /\ a.n <= Len(KeySetOf(a.kind))
        /\ match_property_keys(pn.name, KeySetOf(a.kind)[a.n].key).ret}

\* C22: once the constants are bound, a raw key matches at most one arm of the
\* three try_from_constant_string_ref taken together, and parse() gives that
\* arm's variant whatever the order of the tries, Other when there is none.
C22_DisjointEnumerations ==
    (pn.op \in {"parse", "from", "eq", "try_from"} /\ pn.bound)
    => /\ Cardinality(MatchingArms) <= 1
       /\ pn.op \in {"parse", "from"} =>
             /\ MatchingArms = {} => pn.parsed = Parsed("Other", "", pn.name.text)
             /\ \A a \in MatchingArms :
                   pn.parsed = Parsed(a.kind, KeySetOf(a.kind)[a.n].prop, "")

C22_Witness ==
    /\ pn.op = "parse"
    /\ pn.bound
    /\ pn.name = kMIDIPropertyName
    /\ MatchingArms = {[kind |-> "String", n |-> 1]}
    /\ pn.parsed = Parsed("String", "Name", "")

\* The variants of a kind
VariantsOf(kind) ==
    CASE kind = "String"  -> StringProperty
      [] kind = "Integer" -> IntegerProperty
      [] kind = "Boolean" -> BooleanProperty

\* C23 as stated: for every variant k of a kind, at any time,
\* try_from_constant_string_ref(CFStringRef::from(k)) is Some(k), and it is None
\* for a key that matches no constant of the kind.
C23_BidirectionalAlways ==
    pn.op = "try_from" =>
        /\ \A prop \in VariantsOf(pn.kind) :
              pn.name = Into_CFStringRef(pn.kind, prop) => pn.tried = Some(prop)
        /\ (\A prop \in VariantsOf(pn.kind) :
              ~match_property_keys(pn.name, Into_CFStringRef(pn.kind, prop)).ret)
           => pn.tried = None

\* C23, amended: once a client has been created and the constants are bound,
\* try_from_constant_string_ref(CFStringRef::from(k)) is Some(k) for every
\* variant k of the kind; at any time it is None for a key that matches no
\* constant of the kind.
C23_BidirectionalOnceBound ==
    pn.op = "try_from" =>
        /\ pn.bound =>
              \A prop \in VariantsOf(pn.kind) :
                  pn.name = Into_CFStringRef(pn.kind, prop) => pn.tried = Some(prop)
        /\ (\A prop \in VariantsOf(pn.kind) :
              ~match_property_keys(pn.name, Into_CFStringRef(pn.kind, prop)).ret)
           => pn.tried = None

C23_Witness ==
    /\ pn.op = "try_from"
    /\ pn.bound
    /\ pn.kind = "Boolean"
    /\ pn.name = BooleanProperty_into_CFStringRef("TransmitsMTC")
    /\ pn.tried = Some("TransmitsMTC")

(***************************************************************************)
(* Effects of the accessors on the store, under Spec.                      *)
(***************************************************************************)
\* C24: a set_string_property, set_int_property or set_bool_property that
\* returns Err leaves every stored property, and the objects, as they were
\* before the call, so that any later get returns what it would have returned
\* before.
C24_FailedSetChangesNothing ==
    [][((SetStringProperty \/ SetIntProperty \/ SetBoolProperty) /\ ~last'.res.ok)
          => (props' = props /\ alive' = alive)]_vars

C24_Witness ==
    /\ last.op = "set_int_property"
    /\ ~last.res.ok
    /\ last.res.status = kMIDIObjectNotFound
    /\ Len(last.native) = 1
    /\ last.cell = Cell(last.object, RawText(last.key))

\* The native primitive an accessor of impl Object goes through.
NativeOf(op) ==
    CASE op = "string_property"     -> "MIDIObjectGetStringProperty"
      [] op = "set_string_property" -> "MIDIObjectSetStringProperty"
      [] op \in {"int_property", "bool_property"} -> "MIDIObjectGetIntegerProperty"
      [] op \in {"set_int_property", "set_bool_property"} -> "MIDIObjectSetIntegerProperty"

\* C25: a call of string_property, set_string_property, int_property,
\* set_int_property, bool_property or set_bool_property makes exactly one native
\* call, the get or set of its kind on the object of the call, and when that
\* call reports a failing status the accessor returns Err of that status.
C25_OneNativeCall ==
    last.op \in {"string_property", "set_string_property", "int_property",
                 "set_int_property", "bool_property", "set_bool_property"}
    => /\ Len(last.native) = 1
       /\ last.native[1].fn = NativeOf(last.op)
       /\ last.native[1].object = last.object
       /\ last.native[1].status # noErr => last.res = Err(last.native[1].status)

C25_Witness ==
    /\ last.op = "int_property"
    /\ Len(last.native) = 1
    /\ last.native[1].status = kMIDIUnknownProperty
    /\ last.res = Err(kMIDIUnknownProperty)

(***************************************************************************)
(* The frame of impl Object, under SpecObject.                             *)
(***************************************************************************)
GetStep ==
    \/ StringProperty_get
    \/ IntProperty
    \/ BoolProperty
    \/ ObjectName
    \/ ObjectUniqueId
    \/ ObjectDisplayName

SetStep ==
    \/ SetStringProperty
    \/ SetIntProperty
    \/ SetBoolProperty
    \/ SetNameOrDisplayName
    \/ SetUniqueId

\* C28: a get accessor (string_property, int_property, bool_property, name,
\* unique_id, display_name) leaves every stored property as it was, and a set
\* on (object, key) leaves as it was every property of every other object and
\* every property of the object stored under another raw key.
C28_AccessorFrame ==
    [][/\ GetStep => props' = props
       /\ SetStep =>
             \A object \in Objects :
                 \A text \in DOMAIN props[object] \cup DOMAIN props'[object] :
                     (object # last'.object \/ text # RawText(last'.key))
                     => /\ text \in DOMAIN props[object]
                        /\ text \in DOMAIN props'[object]
                        /\ props'[object][text] = props[object][text]]_vars

C28_Witness ==
    /\ last.op = "set_string_property"
    /\ last.res.ok
    /\ last.object = "dest"
    /\ last.key = StrArg(CustomText)
    /\ Cell("dest", CustomText) = last.arg
    /\ Cell("dest", "name") = StrV(NAME_ORIG)
    /\ Cell("client", "name") = StrV(ClientName)

(***************************************************************************)
(* unique_id, under SpecReads.                                             *)
(***************************************************************************)
\* v mod 2^32 for an SInt32 v, as the two 16-bit halves of a u32: v itself when
\* v >= 0, and v + 2^32 = 2^31 + (v + 2^31) when v < 0.
ModTwoTo32(v) ==
    IF v >= 0
    THEN [hi |-> v \div 65536, lo |-> v % 65536]
    ELSE [hi |-> 32768 + ((v - MinI32) \div 65536), lo |-> (v - MinI32) % 65536]

\* C30: when the native get behind unique_id() succeeds with the SInt32 v,
\* unique_id() returns Some(v mod 2^32): v + 2^32 for a negative v, v itself
\* otherwise, and never None.
C30_UniqueIdUnsigned ==
    (last.op = "unique_id" /\ last.native[1].status = noErr)
    => /\ last.res.some
       /\ last.res.v.t = "u32"
       /\ last.res.v.hi = ModTwoTo32(last.native[1].out.i).hi
       /\ last.res.v.i = ModTwoTo32(last.native[1].out.i).lo

C30_Witness ==
    /\ last.op = "unique_id"
    /\ last.native[1].status = noErr
    /\ last.native[1].out = IntV(-1)
    /\ last.res.some
    /\ last.res.v.hi = 65535
    /\ last.res.v.i = 65535

(***************************************************************************)
(* A held PropertyName, under SpecHeld.                                    *)
(***************************************************************************)
HeldCall == HeldParse \/ HeldEq \/ HeldEqName \/ HeldToString \/ HeldClone

\* C27: parse(), == against a standard property or a PropertyName, to_string()
\* and clone() leave the held PropertyName and the string it wraps as they were
\* (same reference, allocation still live), and with the constants bound a
\* parse() or comparison repeated on the same PropertyName gives the result it
\* gave before.
C27_PropertyNameImmutable ==
    [][HeldCall =>
          /\ held' = held
          /\ Live(heap, held.cf) => Live(heap', held.cf)
          /\ Deref(heap', held.cf) = {held.cf}
          /\ (/\ pn.bound /\ pn'.bound
              /\ pn'.op \in {"parse", "eq", "eq_name", "to_string"}
              /\ pn.op = pn'.op /\ pn.name = pn'.name
              /\ pn.kind = pn'.kind /\ pn.prop = pn'.prop /\ pn.arg = pn'.arg)
             => pn' = pn]_vars

C27_Witness ==
    /\ held.some
    /\ held.cf = CFString_new("nOt_A_pRoPeRtY", KeyAddr)
    /\ heap[KeyAddr] = 2
    /\ pn.op = "parse"
    /\ pn.bound
    /\ pn.name = held.cf
    /\ pn.parsed = Parsed("Other", "", "nOt_A_pRoPeRtY")

(***************************************************************************)
(* Two concurrent callers, under SpecConc.                                 *)
(***************************************************************************)
\* What one call does to a property read and written as one atomic register:
\* the result of the call and the value stored after it.
SeqStep(c, cell) ==
    CASE c.op = "set_string_property" -> [res |-> Ok(UnitV), cell |-> StrV(c.value.s)]
      [] c.op = "set_int_property"    -> [res |-> Ok(UnitV), cell |-> IntV(c.value.i)]
      [] c.op = "set_bool_property"   -> [res |-> Ok(UnitV), cell |-> IntV(c.value.i)]
      [] c.op = "string_property" ->
            [res  |-> CASE cell.t = "str"   -> Ok(StrV(cell.s))
                        [] cell.t = "null"  -> Ok(StrV(""))
                        [] cell.t = "unset" -> Err(kMIDIUnknownProperty)
                        [] OTHER            -> Err(kMIDIWrongPropertyType),
             cell |-> cell]
      [] c.op = "int_property" ->
            [res  |-> CASE cell.t = "int"   -> Ok(IntV(cell.i))
                        [] cell.t = "unset" -> Err(kMIDIUnknownProperty)
                        [] OTHER            -> Err(kMIDIWrongPropertyType),
             cell |-> cell]
      [] c.op = "bool_property" ->
            [res  |-> CASE cell.t = "int"   -> Ok(BoolV(cell.i = 1))
                        [] cell.t = "unset" -> Err(kMIDIUnknownProperty)
                        [] OTHER            -> Err(kMIDIWrongPropertyType),
             cell |-> cell]

\* The value the callers' property had before either of them called.
Prior(text) == IF text = "name" THEN StrV(NAME_ORIG) ELSE Unset

Returned(t) == th[t].pc \in {"returned", "done"}
Acted(t) == th[t].calls > 0

\* C26: with each native call atomic, the results of two callers on the same
\* object and raw key, and the value stored afterwards, are those of the two
\* calls made one after the other in some order; a caller that returns before
\* the other has made a native call gets what the call alone gives on the prior
\* value.  So a get returns the prior value or a value one of the sets wrote.
C26_ConcurrentCallsSerialize ==
    /\ \A t \in Threads :
          (Returned(t) /\ ~Acted(OtherThread(t)))
          => LET one == SeqStep(th[t], Prior(RawText(th[t].arg)))
             IN  /\ th[t].res = one.res
                 /\ Cell(th[t].object, RawText(th[t].arg)) = one.cell
    /\ (\A t \in Threads : Returned(t))
       => \E t \in Threads :
             LET u      == OtherThread(t)
                 text   == RawText(th[t].arg)
                 first  == SeqStep(th[t], Prior(text))
                 second == SeqStep(th[u], first.cell)
             IN  /\ th[t].res = first.res
                 /\ th[u].res = second.res
                 /\ Cell(th[u].object, text) = second.cell

C26_Witness ==
    /\ th["t1"].pc = "done"
    /\ th["t2"].pc = "done"
    /\ th["t1"].op = "set_string_property"
    /\ th["t1"].value = StrV("B")
    /\ th["t2"].op = "string_property"
    /\ th["t2"].res = Ok(StrV("B"))
    /\ RawText(th["t1"].arg) = "name"

\* C29: the key of an accessor call is made by key.into() before the native
\* call and is dropped only when the accessor returns: the reference the native
\* call receives is live, a custom key's string is released once, after the
\* native call has returned, and a standard key's constant is never released.
C29_KeyLiveDuringNativeCall ==
    \A t \in Threads :
        /\ th[t].pc # "idle" =>
              th[t].key = TypedPropertyKey_from(KindOf(th[t].op), th[t].arg, AddrOf(t))
        /\ Returned(t) => th[t].keyLive
        /\ (th[t].pc \in {"key", "returned"} /\ th[t].key.tag = "Other")
           => /\ Live(heap, as_string_ref(th[t].key))
              /\ th[t].released = NULL
        /\ (th[t].pc = "done" /\ th[t].key.tag = "Other")
           => /\ th[t].released = as_string_ref(th[t].key)
              /\ heap[AddrOf(t)] = 0
        /\ th[t].key.tag = "Standard"
           => /\ th[t].released = NULL
              /\ ~Counted(as_string_ref(th[t].key))

C29_Witness ==
    /\ th["t1"].pc = "returned"
    /\ th["t1"].op = "set_string_property"
    /\ th["t1"].key = Other("String", CFString_new("offline", "heap1"))
    /\ th["t1"].keyLive
    /\ heap["heap1"] = 1
    /\ th["t2"].pc = "done"
    /\ th["t2"].key = Standard("Boolean", "Offline")

====
